---- MODULE Spec2Model ----
(***************************************************************************)
(* Order lifecycle engine of pharma-os: the order status state machine,    *)
(* the lifecycle orchestrator (transitionOrderStatus), the inbound chat    *)
(* message handler, the dashboard order endpoints and the courier          *)
(* webhook, as concurrent request handlers over one database.              *)
(*                                                                         *)
(* Every handler is a process; one step of a process is one awaited        *)
(* database statement or collaborator call together with the synchronous   *)
(* code that follows it up to the next await.                              *)
(***************************************************************************)
EXTENDS Integers, Sequences, FiniteSets, TLC

NULL == "null"

(***************************************************************************)
(* stateMachine.ts                                                         *)
(***************************************************************************)
OrderStatus ==
  { "pending", "awaiting_rx", "rx_received", "under_review", "confirmed",
    "awaiting_payment", "payment_confirmed", "ready_for_pickup",
    "completed", "cancelled" }

EventTypes ==
  { "RX_REQUIRED", "RX_UPLOADED", "START_REVIEW", "CONFIRM_AVAILABILITY",
    "ITEMS_UNAVAILABLE", "PAYMENT_RECEIVED", "MARK_READY", "MARK_COMPLETED",
    "CANCEL" }

PaymentMethods == { "upi", "cod" }

\* Representative positive amounts and cancellation reasons.
Amounts == { 10, 20 }
Reasons == { "Cancelled by pharmacy", "out of stock" }

OrderEvent ==
  [type : { "RX_REQUIRED", "RX_UPLOADED", "START_REVIEW", "PAYMENT_RECEIVED",
            "MARK_READY", "MARK_COMPLETED" }]
  \cup [type : { "CONFIRM_AVAILABILITY" }, totalAmount : Amounts,
        paymentMethod : PaymentMethods]
  \cup [type : { "ITEMS_UNAVAILABLE", "CANCEL" }, reason : Reasons]

\* A table entry is a single status or an array of statuses.
One(s) == [isArray |-> FALSE, value |-> s]
Many(q) == [isArray |-> TRUE, value |-> q]
NoEvents == [e \in {} |-> NULL]

transitions ==
  [ pending |->
      [ RX_REQUIRED |-> One("awaiting_rx"),
        START_REVIEW |-> One("under_review"),
        CANCEL |-> One("cancelled") ],
    awaiting_rx |->
      [ RX_UPLOADED |-> One("rx_received"),
        CANCEL |-> One("cancelled") ],
    rx_received |->
      [ START_REVIEW |-> One("under_review"),
        CANCEL |-> One("cancelled") ],
    under_review |->
      [ CONFIRM_AVAILABILITY |-> Many(<<"awaiting_payment", "confirmed">>),
        ITEMS_UNAVAILABLE |-> One("cancelled"),
        RX_REQUIRED |-> One("awaiting_rx"),
        CANCEL |-> One("cancelled") ],
    confirmed |->
      [ MARK_READY |-> One("ready_for_pickup"),
        CANCEL |-> One("cancelled") ],
    awaiting_payment |->
      [ PAYMENT_RECEIVED |-> One("payment_confirmed"),
        CANCEL |-> One("cancelled") ],
    payment_confirmed |->
      [ MARK_READY |-> One("ready_for_pickup"),
        CANCEL |-> One("cancelled") ],
    ready_for_pickup |->
      [ MARK_COMPLETED |-> One("completed"),
        CANCEL |-> One("cancelled") ],
    completed |-> NoEvents,
    cancelled |-> NoEvents ]

canTransition(currentStatus, eventType) ==
  /\ currentStatus \in DOMAIN transitions
  /\ eventType \in DOMAIN transitions[currentStatus]

\* A static lookup that ignores the event's payload.
getNextStatusStatic(currentStatus, event) ==
  IF ~canTransition(currentStatus, event.type)
    THEN NULL
    ELSE LET nextState == transitions[currentStatus][event.type]
         IN  IF nextState.isArray THEN nextState.value[1] ELSE nextState.value

\* A lookup that lets CANCEL through from every status.
getNextStatusCancelAny(currentStatus, event) ==
  IF event.type = "CANCEL"
    THEN "cancelled"
    ELSE IF ~canTransition(currentStatus, event.type)
           THEN NULL
           ELSE LET nextState == transitions[currentStatus][event.type]
                IN  IF event.type = "CONFIRM_AVAILABILITY" /\ nextState.isArray
                      THEN IF event.paymentMethod = "upi"
                             THEN "awaiting_payment" ELSE "confirmed"
                      ELSE nextState.value

getNextStatus(currentStatus, event) ==
  IF ~canTransition(currentStatus, event.type)
    THEN NULL
    ELSE LET nextState == transitions[currentStatus][event.type]
         IN  IF event.type = "CONFIRM_AVAILABILITY" /\ nextState.isArray
               THEN IF event.paymentMethod = "upi"
                      THEN "awaiting_payment" ELSE "confirmed"
               ELSE nextState.value

isTerminalStatus(status) == status = "completed" \/ status = "cancelled"


(***************************************************************************)
(* Text.  A string is a sequence of one-character strings, so that         *)
(* toLowerCase, trim, includes and the address pattern are computed.       *)
(***************************************************************************)
UpperToLower ==
  [ A |-> "a", B |-> "b", C |-> "c", D |-> "d", E |-> "e", F |-> "f",
    G |-> "g", H |-> "h", I |-> "i", J |-> "j", K |-> "k", L |-> "l",
    M |-> "m", N |-> "n", O |-> "o", P |-> "p", Q |-> "q", R |-> "r",
    S |-> "s", T |-> "t", U |-> "u", V |-> "v", W |-> "w", X |-> "x",
    Y |-> "y", Z |-> "z" ]

Digits == { "0", "1", "2", "3", "4", "5", "6", "7", "8", "9" }
Whitespace == { " ", "\n" }

toLowerCase(s) ==
  [i \in 1..Len(s) |->
     IF s[i] \in DOMAIN UpperToLower THEN UpperToLower[s[i]] ELSE s[i]]

RECURSIVE trimStart(_)
trimStart(s) ==
  IF s # <<>> /\ Head(s) \in Whitespace THEN trimStart(Tail(s)) ELSE s

RECURSIVE trimEnd(_)
trimEnd(s) ==
  IF s # <<>> /\ s[Len(s)] \in Whitespace
    THEN trimEnd(SubSeq(s, 1, Len(s) - 1)) ELSE s

trim(s) == trimEnd(trimStart(s))

Contains(s, t) ==
  \E i \in 1..(Len(s) - Len(t) + 1) : SubSeq(s, i, i + Len(t) - 1) = t

\* /\d{6}/
HasSixDigits(s) ==
  \E i \in 1..(Len(s) - 5) : \A j \in 0..5 : s[i + j] \in Digits

\* /\d+.*,/  ('.' does not match a line break)
HasNumberThenComma(s) ==
  \E i \in 1..Len(s) : \E j \in (i + 1)..Len(s) :
     /\ s[i] \in Digits
     /\ s[j] = ","
     /\ \A k \in (i + 1)..(j - 1) : s[k] # "\n"

AddressWords ==
  { <<"f","l","a","t">>, <<"h","o","u","s","e">>,
    <<"s","t","r","e","e","t">>, <<"r","o","a","d">>,
    <<"s","e","c","t","o","r">>, <<"b","l","o","c","k">>,
    <<"n","e","a","r">> }

\* A pattern that only asks for one of the address words.
looksLikeAddressWordsOnly(Body) ==
  \E w \in AddressWords : Contains(toLowerCase(Body), w)

\* A pattern that accepts every body.
looksLikeAddressAny(Body) == Len(Body) >= 0

\* /\d{6}|\d+.*,|flat|house|street|road|sector|block|near/i.test(Body)
looksLikeAddress(Body) ==
  \/ HasSixDigits(Body)
  \/ HasNumberThenComma(Body)
  \/ \E w \in AddressWords : Contains(toLowerCase(Body), w)

AffirmationTokens ==
  { <<"y","e","s">>, <<"y">>, <<"o","k">>, <<"o","k","a","y">>,
    <<"c","o","n","f","i","r","m">>, <<"s","a","m","e">>,
    <<"s","a","m","e"," ","a","d","d","r","e","s","s">> }

PaymentTokens ==
  { <<"p","a","i","d">>,
    <<"p","a","y","m","e","n","t"," ","d","o","n","e">>,
    <<"d","o","n","e">>, <<"c","o","m","p","l","e","t","e","d">> }

\* An affirmation test that accepts a body as soon as it starts with a token.
isAffirmationPrefix(Body) ==
  \E t \in AffirmationTokens :
     /\ Len(t) <= Len(trim(toLowerCase(Body)))
     /\ SubSeq(trim(toLowerCase(Body)), 1, Len(t)) = t

\* [...].includes(Body.toLowerCase().trim())
isAffirmation(Body) == trim(toLowerCase(Body)) \in AffirmationTokens

isPaymentAck(Body) == trim(toLowerCase(Body)) \in PaymentTokens

MinAddressLength == 20

isAddressReply(Body) == looksLikeAddress(Body) /\ Len(Body) > MinAddressLength

\* The inbound message bodies of the model.
BodyText ==
  [ order |->         \* "Crocin x2"
      <<"C","r","o","c","i","n"," ","x","2">>,
    yes |->           \* "YES"
      <<"Y","E","S">>,
    yes_padded |->    \* " yes" and 18 spaces (22 characters)
      <<" ","y","e","s"," "," "," "," "," "," "," "," "," "," "," "," "," ",
        " "," "," "," "," ">>,
    ok_address |->    \* "ok, flat 4 MG Road 560001" (25 characters)
      <<"o","k",","," ","f","l","a","t"," ","4"," ","M","G"," ","R","o","a",
        "d"," ","5","6","0","0","0","1">>,
    address |->       \* "12 Park Street, Pune 411001" (27 characters)
      <<"1","2"," ","P","a","r","k"," ","S","t","r","e","e","t",","," ","P",
        "u","n","e"," ","4","1","1","0","0","1">>,
    short_address |-> \* "flat 4"
      <<"f","l","a","t"," ","4">>,
    paid |->          \* "Paid"
      <<"P","a","i","d">>,
    payment_done |->  \* "payment done"
      <<"p","a","y","m","e","n","t"," ","d","o","n","e">>,
    empty |->         \* ""
      <<>> ]

BodyIds == DOMAIN BodyText


(***************************************************************************)
(* The database, the configuration and the request handlers in flight.     *)
(***************************************************************************)
VARIABLES
  orders,         \* table orders: sequence of rows, the id is the index
  history,        \* table order_status_history (append-only)
  prescriptions,  \* table prescriptions
  messages,       \* table messages, inbound rows (twilio_sid is the index)
  customers,      \* table customers: customer id -> row
  deliveries,     \* table deliveries: sequence of rows, the id is the index
  outbox,         \* table messages, outbound rows: what was sent, in order
  borzo,          \* the courier's side: number of provider orders created
  pr,             \* handler invocations in flight: slot -> process record
  cfg,            \* configuration: courier integration, pharmacy settings
  base,           \* row counts of the database when the server started
  sm,             \* inputs and result of a direct getNextStatus call
  parse           \* a line handed to parseLineItem and what it returned

vars ==
  <<orders, history, prescriptions, messages, customers, deliveries, outbox,
    borzo, pr, cfg, base, sm, parse>>

\* What the message handler and the lifecycle orchestrator never touch.
courier == <<deliveries, outbox, borzo>>
env == <<cfg, base, sm, parse>>

db == <<orders, history, prescriptions, messages, customers, courier>>

\* Bounds of the model: rows a run adds to messages (inbound),
\* order_status_history and messages (outbound).
MaxMessages == 2
MaxHistory == 2
MaxOutbox == 2

ProcIds == { 1, 2 }
Customers == { "c1" }
DashboardUser == "u1"

\* queryOne yields null when no row matches; row ids start at 1.
NoRow == 0
\* SQL NULL in a DECIMAL column; amounts are positive.
NoAmount == 0
\* SQL NULL in a TEXT column, distinct from the empty string <<>>.
NullText == <<NULL>>

Idle == [kind |-> "idle"]

NewProc(kind, pc, req) ==
  [ kind |-> kind, pc |-> pc, req |-> req,
    msg |-> NoRow,          \* the inbound message row of this request
    oid |-> NoRow,          \* the order the request works on
    snap |-> NULL,          \* the controller's copy of the order row
    text |-> NullText,      \* an address read or about to be written
    tEvent |-> [type |-> NULL],
    tFrom |-> NULL,         \* order.status as read by transitionOrderStatus
    tNext |-> NULL,
    tBy |-> NULL,
    deliv |-> NoRow,        \* the delivery row the request works on
    provider |-> NoRow,     \* the provider order createOrder returned
    price |-> NoAmount,     \* the price the provider returned
    cancel |-> NULL,        \* how the provider's cancelOrder ended, if called
    before |-> NULL,        \* what the request found when it came: orders
                            \* and prescriptions (message), the status of
                            \* the delivery (courier webhook)
    booked |-> FALSE,       \* outcome of bookDeliveryAndNotify
    queue |-> <<>>,         \* notifications the request has yet to send
    sent |-> <<>>,          \* notifications the request has sent
    resp |-> NULL ]

Done(proc, resp) == [proc EXCEPT !.pc = "done", !.resp = resp]

Max(S) == CHOOSE i \in S : \A j \in S : j <= i

\* ORDER BY created_at DESC LIMIT 1 over the rows that satisfy a condition.
Latest(S) == IF S = {} THEN NoRow ELSE Max(S)

OrderIds == 1..Len(orders)

\* A handler that may still append to order_status_history.
MayLog(p) ==
  /\ pr[p].kind # "idle"
  /\ pr[p].pc \notin { "done", "rx_attr", "affirm_set", "affirm_attr",
                       "addr_set", "addr_cust", "addr_attr", "pay_attr",
                       "active_attr", "create_attr" }

HistoryBudget ==
  Len(history) - base.history + Cardinality({p \in ProcIds : MayLog(p)})
    < MaxHistory

\* No request is being handled.
NoneInFlight == \A p \in ProcIds : pr[p].kind = "idle"

\* A new request takes the lowest free slot.
CanStart(p) ==
  /\ pr[p].kind = "idle"
  /\ \A q \in ProcIds : q < p => pr[q].kind # "idle"

(***************************************************************************)
(* orderService.ts                                                         *)
(***************************************************************************)
\* A lookup that takes the customer's latest order whatever its status.
findLatestOrder(customerId) ==
  Latest({o \in OrderIds : orders[o].customer_id = customerId})

\* findPendingRxOrder
findPendingRxOrder(customerId) ==
  Latest({o \in OrderIds : /\ orders[o].customer_id = customerId
                           /\ orders[o].status = "awaiting_rx"})

\* A lookup that takes only pending orders for active ones.
findPendingOrder(customerId) ==
  Latest({o \in OrderIds : /\ orders[o].customer_id = customerId
                           /\ orders[o].status = "pending"})

\* A lookup that does not take an order under review for active.
findActiveOrderSkipsReview(customerId) ==
  Latest({o \in OrderIds :
            /\ orders[o].customer_id = customerId
            /\ orders[o].status
                 \notin {"completed", "cancelled", "under_review"}})

\* findActiveOrder
findActiveOrder(customerId) ==
  Latest({o \in OrderIds : /\ orders[o].customer_id = customerId
                           /\ orders[o].status \notin {"completed", "cancelled"}})

\* The error thrown for a rejected event.
InvalidTransition(status, eventType) ==
  [error |-> "Invalid transition", event |-> eventType, status |-> status]

\* The message chosen by the switch on the requested status.
StatusMessage(proc) ==
  CASE proc.req.status = "confirmed" -> "orderConfirmed_cod"
    [] proc.req.status = "payment_confirmed" -> "paymentReceived"
    [] proc.req.status = "cancelled" -> "orderCancelled"
    [] proc.req.status = "under_review" -> "status_under_review"
    [] proc.req.status = "completed" -> "status_completed"
    [] OTHER -> "orderReady"

\* updateOrderStatus once the transition has been committed.
StatusAfterTransition(proc) ==
  IF ~proc.req.notifyCustomer
    THEN [proc EXCEPT !.pc = "respond"]
  ELSE IF proc.req.status = "awaiting_payment"
    THEN [proc EXCEPT !.pc = "notify",
                      !.queue = <<"orderConfirmed_upi">> \o
                                (IF cfg.upi_id # NULL
                                   THEN <<"paymentInstructions">> ELSE <<>>)]
  ELSE IF proc.req.status = "ready_for_pickup" /\ cfg.borzoEnabled
    THEN [proc EXCEPT !.pc = "b_read"]
  ELSE [proc EXCEPT !.pc = "notify", !.queue = <<StatusMessage(proc)>>]

\* A caller that sends the order-ready message after a successful booking too.
StatusAfterBookingAlsoReady(proc, success) ==
  IF success
    THEN [proc EXCEPT !.booked = TRUE, !.pc = "notify",
                      !.queue = <<"orderReady">>]
    ELSE [proc EXCEPT !.booked = FALSE, !.pc = "notify",
                      !.queue = IF proc.snap.delivery_address \notin {NullText, <<>>}
                                  THEN <<"orderReadyDeliveryPending">>
                                  ELSE <<"orderReady">>]

\* updateOrderStatus once bookDeliveryAndNotify has returned.
StatusAfterBooking(proc, success) ==
  IF success
    THEN [proc EXCEPT !.booked = TRUE, !.pc = "respond"]
    ELSE [proc EXCEPT !.booked = FALSE, !.pc = "notify",
                      !.queue = IF proc.snap.delivery_address \notin {NullText, <<>>}
                                  THEN <<"orderReadyDeliveryPending">>
                                  ELSE <<"orderReady">>]

\* What the caller of transitionOrderStatus does with a thrown error.
Thrown(proc, err) ==
  CASE proc.kind = "msg" -> Done(proc, [reply |-> "apology"])
    [] proc.kind = "status" -> Done(proc, [http |-> 400, error |-> err])
    [] proc.kind = "direct" -> Done(proc, [thrown |-> err])
    [] OTHER -> Done(proc, [http |-> 500, error |-> err])

\* Where the caller continues once transitionOrderStatus has returned.
AfterTransition(proc) ==
  CASE proc.kind = "msg" -> [proc EXCEPT !.pc = "rx_attr"]
    [] proc.kind = "status" -> StatusAfterTransition(proc)
    [] proc.kind = "direct" -> Done(proc, [returned |-> proc.tNext])
    [] OTHER -> [proc EXCEPT !.pc = "notify"]

\* transitionOrderStatus: getOrderById, then getNextStatus on the row read.
TransitionRead(p) ==
  /\ pr[p].kind # "idle"
  /\ pr[p].pc = "t_read"
  /\ LET current == orders[pr[p].oid].status
         nextStatus == getNextStatus(current, pr[p].tEvent)
     IN  pr' = [pr EXCEPT ![p] =
                  IF nextStatus = NULL
                    THEN Thrown(@, InvalidTransition(current, pr[p].tEvent.type))
                    ELSE [@ EXCEPT !.pc = "t_update", !.tFrom = current,
                                   !.tNext = nextStatus]]
  /\ UNCHANGED <<db, env>>

\* A COALESCE with its arguments swapped: a column that has a value keeps it.
CoalesceKeepsColumn(value, column, none) ==
  IF column = none THEN value ELSE column

\* COALESCE($n, column) with $n = value || null
Coalesce(value, column, none) == IF value = none THEN column ELSE value

\* An update that also cancels the deliveries of an order it cancels.
TransitionUpdateCancelsDelivery(p) ==
  /\ pr[p].kind # "idle"
  /\ pr[p].pc = "t_update"
  /\ orders' = [orders EXCEPT ![pr[p].oid].status = pr[p].tNext]
  /\ deliveries' = [d \in DOMAIN deliveries |->
                      IF deliveries[d].order_id = pr[p].oid
                         /\ pr[p].tNext = "cancelled"
                        THEN [deliveries[d] EXCEPT !.status = "cancelled"]
                        ELSE deliveries[d]]
  /\ pr' = [pr EXCEPT ![p].pc = "t_log"]
  /\ UNCHANGED <<history, prescriptions, messages, customers, outbox, borzo,
                 env>>

\* transitionOrderStatus: UPDATE orders SET status = $1, ... WHERE id = $4
TransitionUpdate(p) ==
  /\ pr[p].kind # "idle"
  /\ pr[p].pc = "t_update"
  /\ LET ev == pr[p].tEvent
         amount == IF ev.type = "CONFIRM_AVAILABILITY"
                     THEN ev.totalAmount ELSE NoAmount
         method == IF ev.type = "CONFIRM_AVAILABILITY"
                     THEN ev.paymentMethod ELSE NULL
     IN  orders' = [orders EXCEPT ![pr[p].oid] =
                      [@ EXCEPT !.status = pr[p].tNext,
                                !.total_amount = Coalesce(amount, @, NoAmount),
                                !.payment_method = Coalesce(method, @, NULL)]]
  /\ pr' = [pr EXCEPT ![p].pc = "t_log"]
  /\ UNCHANGED <<history, prescriptions, messages, customers, courier, env>>

\* logStatusChange
logStatusChange(orderId, fromStatus, toStatus, changedBy, reason) ==
  Append(history, [order_id |-> orderId, from_status |-> fromStatus,
                   to_status |-> toStatus, changed_by |-> changedBy,
                   reason |-> reason])

\* transitionOrderStatus: the status-history insert after the update.
TransitionLog(p) ==
  /\ pr[p].kind # "idle"
  /\ pr[p].pc = "t_log"
  /\ history' = logStatusChange(pr[p].oid, pr[p].tFrom, pr[p].tNext, pr[p].tBy,
                   IF pr[p].tEvent.type = "CANCEL"
                     THEN pr[p].tEvent.reason ELSE NULL)
  /\ pr' = [pr EXCEPT ![p] = AfterTransition(@)]
  /\ UNCHANGED <<orders, prescriptions, messages, customers, courier, env>>


(***************************************************************************)
(* webhookController.ts: handleIncomingMessage                             *)
(***************************************************************************)
\* The inbound messages of the model: body, media count, known recipient.
MsgInputs ==
  [from : Customers, body : BodyIds \ {"empty"}, numMedia : {0}, toKnown : {TRUE}]
  \cup [from : Customers, body : {"empty", "address"}, numMedia : {1},
        toKnown : {TRUE}]
  \cup [from : Customers, body : {"order"}, numMedia : {0}, toKnown : {FALSE}]

Body(proc) == BodyText[proc.req.body]

\* The classification checks are tried in a fixed order; each names the
\* query it awaits, and a check whose condition on the message is false is
\* passed over.
AfterPaymentCheck(proc) == "active_find"

AfterAddressCheck(proc) ==
  IF isPaymentAck(Body(proc)) THEN "pay_find" ELSE AfterPaymentCheck(proc)

AfterAffirmationCheck(proc) ==
  IF isAddressReply(Body(proc)) THEN "addr_find" ELSE AfterAddressCheck(proc)

AfterPrescriptionCheck(proc) ==
  IF isAffirmation(Body(proc)) THEN "affirm_find"
  ELSE AfterAffirmationCheck(proc)

\* A handler that never looks at the media count.
AfterMessageLoggedNoMedia(proc) == AfterPrescriptionCheck(proc)

AfterMessageLogged(proc) ==
  IF proc.req.numMedia > 0 THEN "rx_find" ELSE AfterPrescriptionCheck(proc)

\* Orders waiting for a delivery address.
NeedsAddress(o, customerId) ==
  /\ orders[o].customer_id = customerId
  /\ orders[o].status \in {"ready_for_pickup", "payment_confirmed", "confirmed"}
  /\ orders[o].delivery_address = NullText

\* UPDATE messages SET order_id = $1 WHERE twilio_sid = $2
Attribute(msgId, orderId) == [messages EXCEPT ![msgId].order_id = orderId]

\* Pharmacy lookup, customer lookup and the insert of the inbound message.
MsgReceive(p, req) ==
  /\ CanStart(p)
  /\ IF ~req.toKnown
       THEN /\ pr' = [pr EXCEPT ![p] =
                        Done(NewProc("msg", "start", req),
                             [reply |-> "not_registered"])]
            /\ UNCHANGED messages
       ELSE /\ Len(messages) - base.messages < MaxMessages
            /\ HistoryBudget
            /\ messages' = Append(messages,
                              [customer_id |-> req.from, order_id |-> NoRow])
            /\ pr' = [pr EXCEPT ![p] =
                        LET proc == [NewProc("msg", "start", req)
                                       EXCEPT !.msg = Len(messages) + 1,
                                              !.before =
                                                [orders |-> orders,
                                                 prescriptions |-> prescriptions]]
                        IN  [proc EXCEPT !.pc = AfterMessageLogged(proc)]]
  /\ UNCHANGED <<orders, history, prescriptions, customers, courier, env>>

\* Branch 1: findPendingRxOrder for a message with media.
MsgFindPendingRx(p) ==
  /\ pr[p].kind = "msg"
  /\ pr[p].pc = "rx_find"
  /\ LET found == findPendingRxOrder(pr[p].req.from)
     IN  pr' = [pr EXCEPT ![p] =
                  IF found # NoRow
                    THEN [@ EXCEPT !.pc = "rx_insert", !.oid = found]
                    ELSE [@ EXCEPT !.pc = AfterPrescriptionCheck(pr[p])]]
  /\ UNCHANGED <<db, env>>

\* Branch 1: INSERT INTO prescriptions, then call transitionOrderStatus.
MsgSavePrescription(p) ==
  /\ pr[p].kind = "msg"
  /\ pr[p].pc = "rx_insert"
  /\ prescriptions' = Append(prescriptions,
                        [order_id |-> pr[p].oid, customer_id |-> pr[p].req.from])
  /\ pr' = [pr EXCEPT ![p] = [@ EXCEPT !.pc = "t_read",
                                       !.tEvent = [type |-> "RX_UPLOADED"],
                                       !.tBy = NULL]]
  /\ UNCHANGED <<orders, history, messages, customers, courier, env>>

\* Branch 1: attribute the message and reply.
MsgPrescriptionReply(p) ==
  /\ pr[p].kind = "msg"
  /\ pr[p].pc = "rx_attr"
  /\ messages' = Attribute(pr[p].msg, pr[p].oid)
  /\ pr' = [pr EXCEPT ![p] = Done(@, [reply |-> "rx_received", order |-> pr[p].oid])]
  /\ UNCHANGED <<orders, history, prescriptions, customers, courier, env>>

\* A lookup that does not ask for an address on file.
MsgFindOrderAnyPrevAddress(p) ==
  /\ pr[p].kind = "msg"
  /\ pr[p].pc = "affirm_find"
  /\ LET c == pr[p].req.from
         found == Latest({o \in OrderIds : NeedsAddress(o, c)})
     IN  pr' = [pr EXCEPT ![p] =
                  IF found # NoRow
                    THEN [@ EXCEPT !.pc = "affirm_set", !.oid = found,
                                   !.text = customers[c].address]
                    ELSE [@ EXCEPT !.pc = AfterAffirmationCheck(pr[p])]]
  /\ UNCHANGED <<db, env>>

\* Branch 2: the order waiting for an address, joined with a non-empty
\* customers.address.
MsgFindOrderWithPrevAddress(p) ==
  /\ pr[p].kind = "msg"
  /\ pr[p].pc = "affirm_find"
  /\ LET c == pr[p].req.from
         found == Latest({o \in OrderIds :
                            /\ NeedsAddress(o, c)
                            /\ customers[c].address # NullText
                            /\ customers[c].address # <<>>})
     IN  pr' = [pr EXCEPT ![p] =
                  IF found # NoRow
                    THEN [@ EXCEPT !.pc = "affirm_set", !.oid = found,
                                   !.text = customers[c].address]
                    ELSE [@ EXCEPT !.pc = AfterAffirmationCheck(pr[p])]]
  /\ UNCHANGED <<db, env>>

\* Branch 2: UPDATE orders SET delivery_address = prev_address.
MsgUsePrevAddress(p) ==
  /\ pr[p].kind = "msg"
  /\ pr[p].pc = "affirm_set"
  /\ orders' = [orders EXCEPT ![pr[p].oid].delivery_address = pr[p].text]
  /\ pr' = [pr EXCEPT ![p].pc = "affirm_attr"]
  /\ UNCHANGED <<history, prescriptions, messages, customers, courier, env>>

MsgPrevAddressReply(p) ==
  /\ pr[p].kind = "msg"
  /\ pr[p].pc = "affirm_attr"
  /\ messages' = Attribute(pr[p].msg, pr[p].oid)
  /\ pr' = [pr EXCEPT ![p] =
              Done(@, [reply |-> "saved_address", order |-> pr[p].oid])]
  /\ UNCHANGED <<orders, history, prescriptions, customers, courier, env>>

\* Branch 3: the order waiting for an address.
MsgFindOrderNeedingAddress(p) ==
  /\ pr[p].kind = "msg"
  /\ pr[p].pc = "addr_find"
  /\ LET found == Latest({o \in OrderIds : NeedsAddress(o, pr[p].req.from)})
     IN  pr' = [pr EXCEPT ![p] =
                  IF found # NoRow
                    THEN [@ EXCEPT !.pc = "addr_set", !.oid = found,
                                   !.text = trim(Body(pr[p]))]
                    ELSE [@ EXCEPT !.pc = AfterAddressCheck(pr[p])]]
  /\ UNCHANGED <<db, env>>

\* Branch 3: UPDATE orders SET delivery_address = Body.trim().
MsgSaveAddress(p) ==
  /\ pr[p].kind = "msg"
  /\ pr[p].pc = "addr_set"
  /\ orders' = [orders EXCEPT ![pr[p].oid].delivery_address = pr[p].text]
  /\ pr' = [pr EXCEPT ![p].pc = "addr_cust"]
  /\ UNCHANGED <<history, prescriptions, messages, customers, courier, env>>

\* Branch 3: UPDATE customers SET address = Body.trim().
MsgRememberAddress(p) ==
  /\ pr[p].kind = "msg"
  /\ pr[p].pc = "addr_cust"
  /\ customers' = [customers EXCEPT ![pr[p].req.from].address = pr[p].text]
  /\ pr' = [pr EXCEPT ![p].pc = "addr_attr"]
  /\ UNCHANGED <<orders, history, prescriptions, messages, courier, env>>

MsgAddressReply(p) ==
  /\ pr[p].kind = "msg"
  /\ pr[p].pc = "addr_attr"
  /\ messages' = Attribute(pr[p].msg, pr[p].oid)
  /\ pr' = [pr EXCEPT ![p] =
              Done(@, [reply |-> "address_saved", order |-> pr[p].oid])]
  /\ UNCHANGED <<orders, history, prescriptions, customers, courier, env>>

\* Branch 4: the order in awaiting_payment.
MsgFindAwaitingPayment(p) ==
  /\ pr[p].kind = "msg"
  /\ pr[p].pc = "pay_find"
  /\ LET found == Latest({o \in OrderIds :
                            /\ orders[o].customer_id = pr[p].req.from
                            /\ orders[o].status = "awaiting_payment"})
     IN  pr' = [pr EXCEPT ![p] =
                  IF found # NoRow
                    THEN [@ EXCEPT !.pc = "pay_attr", !.oid = found]
                    ELSE [@ EXCEPT !.pc = AfterPaymentCheck(pr[p])]]
  /\ UNCHANGED <<db, env>>

\* A payment acknowledgement that confirms the payment by itself.
MsgPaymentAckReplyAutoConfirm(p) ==
  /\ pr[p].kind = "msg"
  /\ pr[p].pc = "pay_attr"
  /\ messages' = Attribute(pr[p].msg, pr[p].oid)
  /\ orders' = [orders EXCEPT ![pr[p].oid].status = "payment_confirmed"]
  /\ pr' = [pr EXCEPT ![p] =
              Done(@, [reply |-> "payment_noted", order |-> pr[p].oid])]
  /\ UNCHANGED <<history, prescriptions, customers, courier, env>>

\* Branch 4: attribute the message and reply; the order is left as it is.
MsgPaymentAckReply(p) ==
  /\ pr[p].kind = "msg"
  /\ pr[p].pc = "pay_attr"
  /\ messages' = Attribute(pr[p].msg, pr[p].oid)
  /\ pr' = [pr EXCEPT ![p] =
              Done(@, [reply |-> "payment_noted", order |-> pr[p].oid])]
  /\ UNCHANGED <<orders, history, prescriptions, customers, courier, env>>

\* Branch 5 or 6: findActiveOrder.
MsgFindActiveOrder(p) ==
  /\ pr[p].kind = "msg"
  /\ pr[p].pc = "active_find"
  /\ LET found == findActiveOrder(pr[p].req.from)
     IN  pr' = [pr EXCEPT ![p] =
                  IF found # NoRow
                    THEN [@ EXCEPT !.pc = "active_attr", !.oid = found]
                    ELSE [@ EXCEPT !.pc = "create"]]
  /\ UNCHANGED <<db, env>>

\* A branch 5 that cancels the order it attributes the message to.
MsgActiveOrderReplyCancels(p) ==
  /\ pr[p].kind = "msg"
  /\ pr[p].pc = "active_attr"
  /\ messages' = Attribute(pr[p].msg, pr[p].oid)
  /\ orders' = [orders EXCEPT ![pr[p].oid].status = "cancelled"]
  /\ pr' = [pr EXCEPT ![p] =
              Done(@, [reply |-> "message_received", order |-> pr[p].oid])]
  /\ UNCHANGED <<history, prescriptions, customers, courier, env>>

\* Branch 5: attribute the message and reply; the order is left as it is.
MsgActiveOrderReply(p) ==
  /\ pr[p].kind = "msg"
  /\ pr[p].pc = "active_attr"
  /\ messages' = Attribute(pr[p].msg, pr[p].oid)
  /\ pr' = [pr EXCEPT ![p] =
              Done(@, [reply |-> "message_received", order |-> pr[p].oid])]
  /\ UNCHANGED <<orders, history, prescriptions, customers, courier, env>>

\* createOrder: INSERT INTO orders; status takes the column default.
MsgCreateOrder(p) ==
  /\ pr[p].kind = "msg"
  /\ pr[p].pc = "create"
  /\ orders' = Append(orders,
                 [ customer_id |-> pr[p].req.from, status |-> "pending",
                   total_amount |-> NoAmount, payment_method |-> NULL,
                   delivery_address |-> NullText, delivery_id |-> NoRow ])
  /\ pr' = [pr EXCEPT ![p] = [@ EXCEPT !.pc = "create_log",
                                       !.oid = Len(orders) + 1]]
  /\ UNCHANGED <<history, prescriptions, messages, customers, courier, env>>

\* createOrder: logStatusChange(result.id, null, 'pending', null)
MsgCreateOrderLog(p) ==
  /\ pr[p].kind = "msg"
  /\ pr[p].pc = "create_log"
  /\ history' = logStatusChange(pr[p].oid, NULL, "pending", NULL, NULL)
  /\ pr' = [pr EXCEPT ![p].pc = "create_attr"]
  /\ UNCHANGED <<orders, prescriptions, messages, customers, courier, env>>

MsgNewOrderReply(p) ==
  /\ pr[p].kind = "msg"
  /\ pr[p].pc = "create_attr"
  /\ messages' = Attribute(pr[p].msg, pr[p].oid)
  /\ pr' = [pr EXCEPT ![p] =
              Done(@, [reply |-> "order_received", order |-> pr[p].oid])]
  /\ UNCHANGED <<orders, history, prescriptions, customers, courier, env>>

\* Any awaited statement of handleIncomingMessage raises: the catch of the
\* handler replies with the apology.
MsgRaise(p) ==
  /\ pr[p].kind = "msg"
  /\ pr[p].pc # "done"
  /\ pr' = [pr EXCEPT ![p] = Done(@, [reply |-> "apology"])]
  /\ UNCHANGED <<db, env>>

\* The response has been sent: the invocation is over.
Return(p) ==
  /\ pr[p].kind # "idle"
  /\ pr[p].pc = "done"
  /\ pr' = [pr EXCEPT ![p] = Idle]
  /\ UNCHANGED <<db, env>>



(***************************************************************************)
(* sender.ts: sendWhatsAppMessage                                          *)
(***************************************************************************)
\* The transport accepted the message: the outbound row is inserted.
Sent(orderId, template) ==
  Append(outbox, [order_id |-> orderId, template |-> template])

\* Notifications a request may send, at most.
Need(kind, req) ==
  CASE kind = "status" ->
         IF ~req.notifyCustomer THEN 0
         ELSE IF req.status = "awaiting_payment" THEN 2 ELSE 1
    [] kind = "rxreq" -> 1
    [] kind = "book" -> 1
    [] kind = "hook" -> IF req.new_status \in {"active", "performer_found",
                                                "completed"} THEN 1 ELSE 0
    [] OTHER -> 0

RECURSIVE SumNeed(_)
SumNeed(P) ==
  IF P = {} THEN 0
  ELSE LET p == CHOOSE q \in P : TRUE
       IN  (IF pr[p].kind = "idle" \/ pr[p].pc = "done"
              THEN 0 ELSE Need(pr[p].kind, pr[p].req))
           + SumNeed(P \ {p})

OutboxBudget(kind, req) ==
  Len(outbox) - base.outbox + SumNeed(ProcIds) + Need(kind, req) <= MaxOutbox

(***************************************************************************)
(* orderController.ts: updateOrderStatus                                   *)
(***************************************************************************)
TargetStatuses ==
  { "under_review", "confirmed", "awaiting_payment", "payment_confirmed",
    "ready_for_pickup", "completed", "cancelled" }

\* Bodies that pass updateStatusSchema; a field that is absent is NoAmount
\* or NULL.  Fields the target status does not read are left absent; an
\* absent paymentMethod stands for cash on delivery.
StatusRequests(ids) ==
  [id : ids,
   status : {"under_review", "payment_confirmed", "ready_for_pickup", "completed"},
   totalAmount : {NoAmount}, paymentMethod : {NULL}, reason : {NULL},
   notifyCustomer : BOOLEAN]
  \cup [id : ids, status : {"confirmed", "awaiting_payment"},
        totalAmount : Amounts, paymentMethod : {NULL, "upi"}, reason : {NULL},
        notifyCustomer : BOOLEAN]
  \cup [id : ids, status : {"confirmed", "awaiting_payment"},
        totalAmount : {NoAmount}, paymentMethod : {NULL}, reason : {NULL},
        notifyCustomer : {TRUE}]
  \cup [id : ids, status : {"cancelled"}, totalAmount : {NoAmount},
        paymentMethod : {NULL}, reason : {NULL, "out of stock"},
        notifyCustomer : BOOLEAN]

\* A request for an order that does not exist.
StatusRequestsUnknown ==
  [id : {Len(orders) + 1}, status : {"under_review"}, totalAmount : {NoAmount},
   paymentMethod : {NULL}, reason : {NULL}, notifyCustomer : {TRUE}]

\* The event built for a target status.
EventFor(req) ==
  CASE req.status = "under_review" -> [type |-> "START_REVIEW"]
    [] req.status \in {"confirmed", "awaiting_payment"} ->
         [type |-> "CONFIRM_AVAILABILITY", totalAmount |-> req.totalAmount,
          paymentMethod |-> IF req.paymentMethod = NULL
                              THEN "cod" ELSE req.paymentMethod]
    [] req.status = "payment_confirmed" -> [type |-> "PAYMENT_RECEIVED"]
    [] req.status = "ready_for_pickup" -> [type |-> "MARK_READY"]
    [] req.status = "completed" -> [type |-> "MARK_COMPLETED"]
    [] req.status = "cancelled" ->
         [type |-> "CANCEL",
          reason |-> IF req.reason = NULL
                       THEN "Cancelled by pharmacy" ELSE req.reason]

\* getOrderById in the controller, then the event for the target status.
StatusRequest(p, req) ==
  /\ CanStart(p)
  /\ IF req.id \notin OrderIds
       THEN pr' = [pr EXCEPT ![p] =
                     Done(NewProc("status", "start", req),
                          [http |-> 404, error |-> "Order not found"])]
       ELSE IF req.status \in {"confirmed", "awaiting_payment"}
               /\ req.totalAmount = NoAmount
         THEN pr' = [pr EXCEPT ![p] =
                       Done(NewProc("status", "start", req),
                            [http |-> 400, error |-> "Total amount is required"])]
         ELSE /\ HistoryBudget
              /\ OutboxBudget("status", req)
              /\ pr' = [pr EXCEPT ![p] =
                          [NewProc("status", "t_read", req)
                             EXCEPT !.oid = req.id, !.snap = orders[req.id],
                                    !.tEvent = EventFor(req),
                                    !.tBy = DashboardUser]]
  /\ UNCHANGED <<db, env>>

\* A controller that undoes the transition when the send fails.
StatusNotifyRollsBack(p) ==
  /\ pr[p].kind = "status"
  /\ pr[p].pc = "notify"
  /\ \E ok \in BOOLEAN :
       IF ok
         THEN /\ outbox' = Sent(pr[p].oid, Head(pr[p].queue))
              /\ pr' = [pr EXCEPT ![p] =
                          [@ EXCEPT !.sent = Append(@, Head(pr[p].queue)),
                                    !.queue = Tail(@),
                                    !.pc = IF Tail(pr[p].queue) = <<>>
                                             THEN "respond" ELSE "notify"]]
              /\ UNCHANGED orders
         ELSE /\ pr' = [pr EXCEPT ![p] =
                          Done(@, [http |-> 500, error |-> "send failed"])]
              /\ orders' = [orders EXCEPT ![pr[p].oid].status = pr[p].tFrom]
              /\ UNCHANGED outbox
  /\ UNCHANGED <<history, prescriptions, messages, customers,
                 deliveries, borzo, env>>

\* One sendWhatsAppMessage of the controller; a failure is rethrown.
StatusNotify(p) ==
  /\ pr[p].kind = "status"
  /\ pr[p].pc = "notify"
  /\ \E ok \in BOOLEAN :
       IF ok
         THEN /\ outbox' = Sent(pr[p].oid, Head(pr[p].queue))
              /\ pr' = [pr EXCEPT ![p] =
                          [@ EXCEPT !.sent = Append(@, Head(pr[p].queue)),
                                    !.queue = Tail(@),
                                    !.pc = IF Tail(pr[p].queue) = <<>>
                                             THEN "respond" ELSE "notify"]]
         ELSE /\ pr' = [pr EXCEPT ![p] =
                          Done(@, [http |-> 500, error |-> "send failed"])]
              /\ UNCHANGED outbox
  /\ UNCHANGED <<orders, history, prescriptions, messages, customers,
                 deliveries, borzo, env>>

\* getDeliveryByOrderId: the first row the query returns for the order.
DeliveriesOf(orderId) ==
  {d \in 1..Len(deliveries) : deliveries[d].order_id = orderId}

\* getDeliveryByOrderId and the response.
StatusRespond(p) ==
  /\ pr[p].kind = "status"
  /\ pr[p].pc = "respond"
  /\ \E d \in DeliveriesOf(pr[p].oid) \cup
              (IF DeliveriesOf(pr[p].oid) = {} THEN {NoRow} ELSE {}) :
       pr' = [pr EXCEPT ![p] =
                Done(@, [http |-> 200, status |-> pr[p].tNext,
                         delivery |-> IF d = NoRow THEN NULL
                                      ELSE deliveries[d].status])]
  /\ UNCHANGED <<db, env>>

(***************************************************************************)
(* orderController.ts: requestPrescription                                 *)
(***************************************************************************)
RxRequest(p, id) ==
  /\ CanStart(p)
  /\ IF id \notin OrderIds
       THEN pr' = [pr EXCEPT ![p] =
                     Done(NewProc("rxreq", "start", [id |-> id]),
                          [http |-> 404, error |-> "Order not found"])]
       ELSE /\ HistoryBudget
            /\ OutboxBudget("rxreq", [id |-> id])
            /\ pr' = [pr EXCEPT ![p] =
                        [NewProc("rxreq", "t_read", [id |-> id])
                           EXCEPT !.oid = id, !.snap = orders[id],
                                  !.tEvent = [type |-> "RX_REQUIRED"],
                                  !.tBy = DashboardUser]]
  /\ UNCHANGED <<db, env>>

\* sendRxRequest after the transition; a failure is not caught.
RxRequestSend(p) ==
  /\ pr[p].kind = "rxreq"
  /\ pr[p].pc = "notify"
  /\ \E ok \in BOOLEAN :
       IF ok
         THEN /\ outbox' = Sent(pr[p].oid, "rxRequired")
              /\ pr' = [pr EXCEPT ![p] =
                          Done([@ EXCEPT !.sent = Append(@, "rxRequired")],
                               [http |-> 200])]
         ELSE /\ pr' = [pr EXCEPT ![p] =
                          Done(@, [http |-> 500, error |-> "send failed"])]
              /\ UNCHANGED outbox
  /\ UNCHANGED <<orders, history, prescriptions, messages, customers,
                 deliveries, borzo, env>>

\* Bodies that pass updateOrderSchema: a total amount or none.  The items
\* and the notes are columns the model leaves out.
UpdateRequests(ids) == [id : ids, totalAmount : {NoAmount, 20}]

\* updateOrder: UPDATE orders SET <the fields given> WHERE id = $n, for any
\* status of the order; without a row, 404.
updateOrder(p, req) ==
  /\ CanStart(p)
  /\ IF req.id \notin OrderIds
       THEN /\ pr' = [pr EXCEPT ![p] =
                        Done(NewProc("details", "start", req),
                             [http |-> 404, error |-> "Order not found"])]
            /\ UNCHANGED orders
       ELSE /\ orders' = IF req.totalAmount = NoAmount THEN orders
                         ELSE [orders EXCEPT
                                 ![req.id].total_amount = req.totalAmount]
            /\ pr' = [pr EXCEPT ![p] =
                        Done(NewProc("details", "start", req),
                             [http |-> 200, order |-> orders'[req.id]])]
  /\ UNCHANGED <<history, prescriptions, messages, customers, courier, env>>


(***************************************************************************)
(* deliveryService.ts: bookDeliveryAndNotify, createDelivery, bookDelivery *)
(***************************************************************************)
\* The prices the courier may charge for an order.
Prices == {30, 40}

\* Where the caller continues once bookDeliveryAndNotify has returned.
AfterBooking(proc, success) ==
  IF proc.kind = "book"
    THEN Done([proc EXCEPT !.booked = success],
              IF success THEN [http |-> 200, success |-> TRUE]
              ELSE [http |-> 400, error |-> "Failed to book delivery"])
    ELSE StatusAfterBooking(proc, success)

\* The order with its customer and pharmacy; the checks before the try.
BookRead(p) ==
  /\ pr[p].kind # "idle"
  /\ pr[p].pc = "b_read"
  /\ pr' = [pr EXCEPT ![p] =
              IF \/ orders[pr[p].oid].delivery_address \in {NullText, <<>>}
                 \/ (cfg.pickup_address \in {NullText, <<>>}
                     /\ cfg.address \in {NullText, <<>>})
                 \/ ~cfg.borzoEnabled
                THEN AfterBooking(@, FALSE)
                ELSE [@ EXCEPT !.pc = "b_find"]]
  /\ UNCHANGED <<db, env>>

\* getDeliveryByOrderId: reuse the delivery of the order if there is one.
BookFind(p) ==
  /\ pr[p].kind # "idle"
  /\ pr[p].pc = "b_find"
  /\ \E d \in DeliveriesOf(pr[p].oid) \cup
              (IF DeliveriesOf(pr[p].oid) = {} THEN {NoRow} ELSE {}) :
       pr' = [pr EXCEPT ![p] =
                IF d = NoRow THEN [@ EXCEPT !.pc = "b_create"]
                ELSE [@ EXCEPT !.pc = "bk_call", !.deliv = d]]
  /\ UNCHANGED <<db, env>>

\* createDelivery: INSERT INTO deliveries ... 'pending'
BookCreate(p) ==
  /\ pr[p].kind # "idle"
  /\ pr[p].pc = "b_create"
  /\ deliveries' = Append(deliveries,
                     [ order_id |-> pr[p].oid, status |-> "pending",
                       borzo_order_id |-> NoRow, tracking_url |-> NULL,
                       estimated_price |-> NoAmount, final_price |-> NoAmount,
                       courier_name |-> NULL ])
  /\ pr' = [pr EXCEPT ![p] = [@ EXCEPT !.pc = "b_link",
                                       !.deliv = Len(deliveries) + 1]]
  /\ UNCHANGED <<orders, history, prescriptions, messages, customers,
                 outbox, borzo, env>>

\* createDelivery: UPDATE orders SET delivery_id
BookLink(p) ==
  /\ pr[p].kind # "idle"
  /\ pr[p].pc = "b_link"
  /\ orders' = [orders EXCEPT ![pr[p].oid].delivery_id = pr[p].deliv]
  /\ pr' = [pr EXCEPT ![p].pc = "bk_call"]
  /\ UNCHANGED <<history, prescriptions, messages, customers, courier, env>>

\* bookDelivery: getDeliveryById, then borzoClient.createOrder, which
\* succeeds with a new provider order or raises.
BookCall(p) ==
  /\ pr[p].kind # "idle"
  /\ pr[p].pc = "bk_call"
  /\ \E ok \in BOOLEAN :
       IF ok
         THEN /\ borzo' = borzo + 1
              /\ \E price \in Prices :
                   pr' = [pr EXCEPT ![p] = [@ EXCEPT !.pc = "bk_store",
                                                    !.provider = borzo + 1,
                                                    !.price = price]]
         ELSE /\ pr' = [pr EXCEPT ![p].pc = "bk_fail"]
              /\ UNCHANGED borzo
  /\ UNCHANGED <<orders, history, prescriptions, messages, customers,
                 deliveries, outbox, env>>

\* bookDelivery: store the provider order, the price, status 'booked'.
BookStore(p) ==
  /\ pr[p].kind # "idle"
  /\ pr[p].pc = "bk_store"
  /\ deliveries' = [deliveries EXCEPT ![pr[p].deliv] =
                      [@ EXCEPT !.borzo_order_id = pr[p].provider,
                                !.tracking_url = "track",
                                !.final_price = pr[p].price,
                                !.status = "booked"]]
  /\ pr' = [pr EXCEPT ![p].pc = "b_send"]
  /\ UNCHANGED <<orders, history, prescriptions, messages, customers,
                 outbox, borzo, env>>

\* updateDeliveryStatus
updateDeliveryStatus(deliveryId, status) ==
  [deliveries EXCEPT ![deliveryId].status = status]

\* A handler of the raised call that leaves the delivery as it was.
BookFailKeepsPending(p) ==
  /\ pr[p].kind # "idle"
  /\ pr[p].pc = "bk_fail"
  /\ pr' = [pr EXCEPT ![p] = AfterBooking(@, FALSE)]
  /\ UNCHANGED <<db, env>>

\* bookDelivery: the call raised; mark the delivery failed and rethrow,
\* which bookDeliveryAndNotify turns into { success: false }.
BookFail(p) ==
  /\ pr[p].kind # "idle"
  /\ pr[p].pc = "bk_fail"
  /\ deliveries' = updateDeliveryStatus(pr[p].deliv, "failed")
  /\ pr' = [pr EXCEPT ![p] = AfterBooking(@, FALSE)]
  /\ UNCHANGED <<orders, history, prescriptions, messages, customers,
                 outbox, borzo, env>>

\* bookDeliveryAndNotify: send the tracking link; a failed send is caught
\* by the same try and reported as { success: false }.
BookSend(p) ==
  /\ pr[p].kind # "idle"
  /\ pr[p].pc = "b_send"
  /\ \E ok \in BOOLEAN :
       IF ok
         THEN /\ outbox' = Sent(pr[p].oid, "deliveryBooked")
              /\ pr' = [pr EXCEPT ![p] =
                          AfterBooking([@ EXCEPT !.sent = Append(@, "deliveryBooked")],
                                       TRUE)]
         ELSE /\ pr' = [pr EXCEPT ![p] = AfterBooking(@, FALSE)]
              /\ UNCHANGED outbox
  /\ UNCHANGED <<orders, history, prescriptions, messages, customers,
                 deliveries, borzo, env>>

(***************************************************************************)
(* deliveryController.ts: bookDelivery, cancelOrderDelivery,               *)
(* getDeliveryEstimate                                                     *)
(***************************************************************************)
\* Provider orders the manual bookings of a run may add up to.
MaxBorzo == 2

\* Manual bookings that may still create a provider order.
BookingsInFlight ==
  Cardinality({q \in ProcIds : pr[q].kind = "book" /\ pr[q].pc # "done"})

\* bookDelivery of the controller: getOrderById, the switch of the
\* integration, then bookDeliveryAndNotify.
BookRequest(p, orderId) ==
  /\ CanStart(p)
  /\ LET new == NewProc("book", "start", [id |-> orderId])
     IN  IF orderId \notin OrderIds
           THEN pr' = [pr EXCEPT ![p] =
                         Done(new, [http |-> 404, error |-> "Order not found"])]
         ELSE IF ~cfg.borzoEnabled
           THEN pr' = [pr EXCEPT ![p] =
                         Done(new, [http |-> 400,
                                    error |-> "Delivery service not enabled"])]
         ELSE /\ OutboxBudget("book", [id |-> orderId])
              /\ borzo + BookingsInFlight < MaxBorzo
              /\ pr' = [pr EXCEPT ![p] =
                          [new EXCEPT !.pc = "b_read", !.oid = orderId]]
  /\ UNCHANGED <<db, env>>

\* cancelOrderDelivery and getDeliveryEstimate: getOrderById.
DeliveryRequest(p, kind, orderId) ==
  /\ CanStart(p)
  /\ LET new == NewProc(kind, "start", [id |-> orderId])
     IN  pr' = [pr EXCEPT ![p] =
                  IF orderId \notin OrderIds
                    THEN Done(new, [http |-> 404, error |-> "Order not found"])
                    ELSE [new EXCEPT !.pc = "d_find", !.oid = orderId]]
  /\ UNCHANGED <<db, env>>

CancelRequest(p, orderId) == DeliveryRequest(p, "cancel", orderId)

EstimateRequest(p, orderId) == DeliveryRequest(p, "estimate", orderId)

\* cancelOrderDelivery and getDeliveryEstimate: getDeliveryByOrderId.
DeliveryFind(p) ==
  /\ pr[p].kind \in {"cancel", "estimate"}
  /\ pr[p].pc = "d_find"
  /\ \E d \in DeliveriesOf(pr[p].oid) \cup
              (IF DeliveriesOf(pr[p].oid) = {} THEN {NoRow} ELSE {}) :
       pr' = [pr EXCEPT ![p] =
                IF d = NoRow
                  THEN Done(@, [http |-> 404,
                                error |-> "No delivery found for this order"])
                  ELSE [@ EXCEPT !.pc = "d_read", !.deliv = d]]
  /\ UNCHANGED <<db, env>>

\* cancelDelivery: getDeliveryById; the provider is asked to cancel when the
\* row read has a provider order and is booked.
CancelRead(p) ==
  /\ pr[p].kind = "cancel"
  /\ pr[p].pc = "d_read"
  /\ LET delivery == deliveries[pr[p].deliv]
     IN  pr' = [pr EXCEPT ![p] =
                  [@ EXCEPT !.snap = delivery,
                            !.pc = IF delivery.borzo_order_id # NoRow
                                      /\ delivery.status = "booked"
                                     THEN "c_provider" ELSE "c_update"]]
  /\ UNCHANGED <<db, env>>

\* A cancelDelivery that lets the provider's error reach the caller.
CancelProviderPropagates(p) ==
  /\ pr[p].kind = "cancel"
  /\ pr[p].pc = "c_provider"
  /\ \E outcome \in {"ok", "raised"} :
       pr' = [pr EXCEPT ![p] =
                IF outcome = "ok"
                  THEN [@ EXCEPT !.provider = pr[p].snap.borzo_order_id,
                                 !.cancel = outcome,
                                 !.pc = "c_update"]
                  ELSE Done([@ EXCEPT !.provider = pr[p].snap.borzo_order_id,
                                      !.cancel = outcome],
                            [http |-> 500, error |-> "cancel failed"])]
  /\ UNCHANGED <<db, env>>

\* cancelDelivery: borzoClient.cancelOrder; an error is logged and dropped.
CancelProvider(p) ==
  /\ pr[p].kind = "cancel"
  /\ pr[p].pc = "c_provider"
  /\ \E outcome \in {"ok", "raised"} :
       pr' = [pr EXCEPT ![p] =
                [@ EXCEPT !.provider = pr[p].snap.borzo_order_id,
                          !.cancel = outcome,
                          !.pc = "c_update"]]
  /\ UNCHANGED <<db, env>>

\* cancelDelivery: updateDeliveryStatus(deliveryId, 'cancelled').
CancelUpdate(p) ==
  /\ pr[p].kind = "cancel"
  /\ pr[p].pc = "c_update"
  /\ deliveries' = updateDeliveryStatus(pr[p].deliv, "cancelled")
  /\ pr' = [pr EXCEPT ![p] = Done(@, [http |-> 200, success |-> TRUE])]
  /\ UNCHANGED <<orders, history, prescriptions, messages, customers,
                 outbox, borzo, env>>

\* The amount a price-only query returns.
Estimates == {20}

\* calculateDeliveryPrice: getDeliveryById.
EstimateRead(p) ==
  /\ pr[p].kind = "estimate"
  /\ pr[p].pc = "d_read"
  /\ pr' = [pr EXCEPT ![p] = [@ EXCEPT !.snap = deliveries[pr[p].deliv],
                                       !.pc = "e_calculating"]]
  /\ UNCHANGED <<db, env>>

\* calculateDeliveryPrice: updateDeliveryStatus(deliveryId, 'calculating').
EstimateCalculating(p) ==
  /\ pr[p].kind = "estimate"
  /\ pr[p].pc = "e_calculating"
  /\ deliveries' = updateDeliveryStatus(pr[p].deliv, "calculating")
  /\ pr' = [pr EXCEPT ![p].pc = "e_call"]
  /\ UNCHANGED <<orders, history, prescriptions, messages, customers,
                 outbox, borzo, env>>

\* calculateDeliveryPrice: borzoClient.calculatePrice, which returns an
\* amount or raises; no provider order is created.
EstimateCall(p) ==
  /\ pr[p].kind = "estimate"
  /\ pr[p].pc = "e_call"
  /\ \E ok \in BOOLEAN :
       IF ok
         THEN \E amount \in Estimates :
                pr' = [pr EXCEPT ![p] = [@ EXCEPT !.price = amount,
                                                 !.pc = "e_store"]]
         ELSE pr' = [pr EXCEPT ![p].pc = "e_fail"]
  /\ UNCHANGED <<db, env>>

\* calculateDeliveryPrice: UPDATE deliveries SET estimated_price, 'quoted'.
EstimateStore(p) ==
  /\ pr[p].kind = "estimate"
  /\ pr[p].pc = "e_store"
  /\ deliveries' = [deliveries EXCEPT ![pr[p].deliv] =
                      [@ EXCEPT !.estimated_price = pr[p].price,
                                !.status = "quoted"]]
  /\ pr' = [pr EXCEPT ![p] =
              Done(@, [http |-> 200, estimatedPrice |-> pr[p].price])]
  /\ UNCHANGED <<orders, history, prescriptions, messages, customers,
                 outbox, borzo, env>>

\* A calculateDeliveryPrice without the catch: the error leaves the handler
\* and the delivery stays as it is.
EstimateFailUnmarked(p) ==
  /\ pr[p].kind = "estimate"
  /\ pr[p].pc = "e_fail"
  /\ pr' = [pr EXCEPT ![p] =
              Done(@, [http |-> 500, error |-> "price calculation failed"])]
  /\ UNCHANGED <<db, env>>

\* calculateDeliveryPrice: the call raised; the delivery is marked failed
\* and the error leaves the handler.
EstimateFail(p) ==
  /\ pr[p].kind = "estimate"
  /\ pr[p].pc = "e_fail"
  /\ deliveries' = updateDeliveryStatus(pr[p].deliv, "failed")
  /\ pr' = [pr EXCEPT ![p] =
              Done(@, [http |-> 500, error |-> "price calculation failed"])]
  /\ UNCHANGED <<orders, history, prescriptions, messages, customers,
                 outbox, borzo, env>>

(***************************************************************************)
(* deliveryController.ts: borzoWebhook                                     *)
(***************************************************************************)
\* A table that takes active for a delivery on its way.
statusMapActiveInTransit ==
  [ available |-> "booked",
    active |-> "in_transit",
    performer_found |-> "courier_assigned",
    performer_on_the_way |-> "in_transit",
    delivering |-> "in_transit",
    completed |-> "delivered",
    cancelled |-> "cancelled",
    failed |-> "failed" ]

statusMap ==
  [ available |-> "booked",
    active |-> "courier_assigned",
    performer_found |-> "courier_assigned",
    performer_on_the_way |-> "in_transit",
    delivering |-> "in_transit",
    completed |-> "delivered",
    cancelled |-> "cancelled",
    failed |-> "failed" ]

\* CREATE TYPE delivery_status AS ENUM: the values deliveries.status takes.
delivery_status ==
  { "pending", "calculating", "quoted", "booked", "courier_assigned",
    "in_transit", "delivered", "cancelled", "failed" }

\* A name the object literal answers without having it as a key of its own:
\* it is inherited from Object.prototype, as are toString, valueOf and
\* hasOwnProperty.
InheritedKeys == {"constructor"}

\* What is found under an inherited name: a function, which is truthy and
\* is no delivery status.
Inherited == "function"

Undefined == "undefined"

\* statusMap[new_status]
newDeliveryStatus(new_status) ==
  IF new_status \in DOMAIN statusMap THEN statusMap[new_status]
  ELSE IF new_status \in InheritedKeys THEN Inherited
  ELSE Undefined

\* Webhook bodies: a provider order id, a status (two outside the table
\* included), and whether the body names a courier.
HookRequests ==
  [order_id : 1..borzo,
   new_status : DOMAIN statusMap \cup {"planned"} \cup InheritedKeys,
   courier : {FALSE}]
  \cup [order_id : 1..borzo, new_status : {"active", "performer_found"},
        courier : {TRUE}]
  \cup [order_id : {borzo + 1}, new_status : {"available"}, courier : {FALSE}]

\* The delivery with this provider order id; the status table lookup.
HookReceive(p, req) ==
  /\ CanStart(p)
  /\ LET found == {d \in 1..Len(deliveries) :
                     deliveries[d].borzo_order_id = req.order_id}
     IN  IF found = {} \/ newDeliveryStatus(req.new_status) = Undefined
           THEN pr' = [pr EXCEPT ![p] =
                         Done(NewProc("hook", "start", req),
                              [http |-> 200, ok |-> TRUE])]
           ELSE /\ OutboxBudget("hook", req)
                /\ \E d \in found :
                     pr' = [pr EXCEPT ![p] =
                              [NewProc("hook", "h_status", req)
                                 EXCEPT !.deliv = d,
                                        !.oid = deliveries[d].order_id,
                                        !.before = deliveries[d].status]]
  /\ UNCHANGED <<db, env>>

\* updateDeliveryStatus(delivery.id, newDeliveryStatus); the database
\* rejects a value outside the enumeration, and the error is not caught.
HookUpdateStatus(p) ==
  /\ pr[p].kind = "hook"
  /\ pr[p].pc = "h_status"
  /\ LET new == newDeliveryStatus(pr[p].req.new_status)
     IN  IF new \notin delivery_status
           THEN /\ pr' = [pr EXCEPT ![p] =
                            Done(@, [http |-> 500,
                                     error |-> "invalid input value for enum"])]
                /\ UNCHANGED deliveries
           ELSE /\ deliveries' = updateDeliveryStatus(pr[p].deliv, new)
                /\ pr' = [pr EXCEPT ![p] =
                            IF pr[p].req.courier /\ new = "courier_assigned"
                              THEN [@ EXCEPT !.pc = "h_courier"]
                            ELSE IF new = "delivered"
                              THEN [@ EXCEPT !.pc = "h_delivered"]
                            ELSE Done(@, [http |-> 200, ok |-> TRUE])]
  /\ UNCHANGED <<orders, history, prescriptions, messages, customers,
                 outbox, borzo, env>>

\* UPDATE deliveries SET courier_name, courier_phone
HookCourier(p) ==
  /\ pr[p].kind = "hook"
  /\ pr[p].pc = "h_courier"
  /\ deliveries' = [deliveries EXCEPT ![pr[p].deliv].courier_name = "courier"]
  /\ pr' = [pr EXCEPT ![p].pc = "h_courier_send"]
  /\ UNCHANGED <<orders, history, prescriptions, messages, customers,
                 outbox, borzo, env>>

\* The courier-identity notification; a failed send is not caught.
HookCourierSend(p) ==
  /\ pr[p].kind = "hook"
  /\ pr[p].pc = "h_courier_send"
  /\ \E ok \in BOOLEAN :
       IF ok
         THEN /\ outbox' = Sent(pr[p].oid, "courierAssigned")
              /\ pr' = [pr EXCEPT ![p] =
                          Done([@ EXCEPT !.sent = Append(@, "courierAssigned")],
                               [http |-> 200, ok |-> TRUE])]
         ELSE /\ pr' = [pr EXCEPT ![p] =
                          Done(@, [http |-> 500, error |-> "send failed"])]
              /\ UNCHANGED outbox
  /\ UNCHANGED <<orders, history, prescriptions, messages, customers,
                 deliveries, borzo, env>>

\* The delivery-confirmation notification; a failed send is not caught.
HookDeliveredSend(p) ==
  /\ pr[p].kind = "hook"
  /\ pr[p].pc = "h_delivered"
  /\ \E ok \in BOOLEAN :
       IF ok
         THEN /\ outbox' = Sent(pr[p].oid, "orderDelivered")
              /\ pr' = [pr EXCEPT ![p] =
                          [@ EXCEPT !.sent = Append(@, "orderDelivered"),
                                    !.pc = "h_complete"]]
         ELSE /\ pr' = [pr EXCEPT ![p] =
                          Done(@, [http |-> 500, error |-> "send failed"])]
              /\ UNCHANGED outbox
  /\ UNCHANGED <<orders, history, prescriptions, messages, customers,
                 deliveries, borzo, env>>

\* UPDATE orders SET status = 'completed' WHERE id = delivery.order_id
HookCompleteOrder(p) ==
  /\ pr[p].kind = "hook"
  /\ pr[p].pc = "h_complete"
  /\ orders' = [orders EXCEPT ![pr[p].oid].status = "completed"]
  /\ pr' = [pr EXCEPT ![p] = Done(@, [http |-> 200, ok |-> TRUE])]
  /\ UNCHANGED <<history, prescriptions, messages, customers, courier, env>>

(***************************************************************************)
(* Direct calls of getNextStatus                                           *)
(***************************************************************************)
Unset == "unset"

\* Before the first direct call.
NoCall ==
  [status |-> "pending", event |-> [type |-> "RX_REQUIRED"], result |-> Unset]

SMCall(status, event) ==
  /\ NoneInFlight
  /\ Len(history) = base.history
  /\ sm' = [status |-> status, event |-> event, result |-> Unset]
  /\ UNCHANGED <<db, pr, cfg, base, parse>>

SMReturn ==
  /\ sm.result = Unset
  /\ sm' = [sm EXCEPT !.result = getNextStatus(sm.status, sm.event)]
  /\ UNCHANGED <<db, pr, cfg, base, parse>>

(***************************************************************************)
(* services/whatsapp/parser.ts: the item extractor.  A line is a string,   *)
(* a sequence of one-character strings, so that every regular expression   *)
(* is computed on characters.  The bullets, the multiplication sign and    *)
(* the long dash outside ASCII are left out of the character classes.      *)
(***************************************************************************)
\* [\s\-*]
Bullets == Whitespace \cup {"-", "*"}

\* The length of the longest run of characters of S in s from index i:
\* what S* consumes there.
Run(s, i, S) ==
  CHOOSE n \in 0..(Len(s) + 1) :
    /\ i + n <= Len(s) + 1
    /\ \A k \in i..(i + n - 1) : s[k] \in S
    /\ (i + n <= Len(s)) => s[i + n] \notin S

\* parseInt(digits, 10) on a non-empty run of decimal digits.  The result is
\* a double in the program and is only compared with 0 and 100: from four
\* digits on the further digits are left out.
RECURSIVE parseInt(_)
parseInt(ds) ==
  LET value == [c \in Digits |->
                  CASE c = "0" -> 0 [] c = "1" -> 1 [] c = "2" -> 2
                    [] c = "3" -> 3 [] c = "4" -> 4 [] c = "5" -> 5
                    [] c = "6" -> 6 [] c = "7" -> 7 [] c = "8" -> 8
                    [] OTHER -> 9]
      front == parseInt(SubSeq(ds, 1, Len(ds) - 1))
  IN  IF ds = <<>> THEN 0
      ELSE IF front >= 1000 THEN front
      ELSE 10 * front + value[ds[Len(ds)]]

\* The ten patterns in their order.  before: the characters of a leading
\* marker, then \s*(\d+); words: (\d+)\s* then one of the words, each a stem
\* and an optional last letter, tried in order; neither: (\d+)\s*$.
quantityPatterns ==
  << [before |-> {"x"}, words |-> <<>>],
     [before |-> {}, words |-> << [stem |-> <<"p","c">>, opt |-> "s"],
                                  [stem |-> <<"p","i","e","c","e">>,
                                   opt |-> "s"] >>],
     [before |-> {}, words |-> << [stem |-> <<"s","t","r","i","p">>,
                                   opt |-> "s"] >>],
     [before |-> {}, words |-> << [stem |-> <<"t","a","b","l","e","t">>,
                                   opt |-> "s"],
                                  [stem |-> <<"t","a","b">>, opt |-> "s"] >>],
     [before |-> {}, words |-> << [stem |-> <<"b","o","t","t","l","e">>,
                                   opt |-> "s"] >>],
     [before |-> {}, words |-> << [stem |-> <<"u","n","i","t">>,
                                   opt |-> "s"] >>],
     [before |-> {}, words |-> << [stem |-> <<"b","o","x","e">>,
                                   opt |-> "s"] >>],
     [before |-> {}, words |-> << [stem |-> <<"p","a","c","k","e","t">>,
                                   opt |-> "s"],
                                  [stem |-> <<"p","a","c","k">>,
                                   opt |-> "s"] >>],
     [before |-> {"-"}, words |-> <<>>],
     [before |-> {}, words |-> <<>>] >>

\* The result of a match that fails.
NoMatch == [index |-> 0, length |-> 0, group |-> <<>>]

\* cleaned.match(pattern): the leftmost match, its length and its group 1.
\* The first and the unit patterns carry the i flag.
match(cleaned, pattern) ==
  LET low == toLowerCase(cleaned)
      Word(i) ==
        LET fits == {k \in DOMAIN pattern.words :
                       /\ i + Len(pattern.words[k].stem) - 1 <= Len(low)
                       /\ SubSeq(low, i, i + Len(pattern.words[k].stem) - 1)
                            = pattern.words[k].stem}
            k == CHOOSE j \in fits : \A h \in fits : j <= h
            e == i + Len(pattern.words[k].stem)
        IN  IF fits = {} THEN 0
            ELSE IF e <= Len(low) /\ low[e] = pattern.words[k].opt
                   THEN Len(pattern.words[k].stem) + 1
                   ELSE Len(pattern.words[k].stem)
      At(i) ==
        IF pattern.before # {}
          THEN LET w == Run(cleaned, i + 1, Whitespace)
                   d == Run(cleaned, i + 1 + w, Digits)
               IN  IF low[i] \in pattern.before /\ d > 0
                     THEN [index |-> i, length |-> 1 + w + d,
                           group |-> SubSeq(cleaned, i + 1 + w, i + w + d)]
                     ELSE NoMatch
          ELSE LET d == Run(cleaned, i, Digits)
                   w == Run(cleaned, i + d, Whitespace)
                   u == IF pattern.words = <<>>
                          THEN IF i + d + w = Len(cleaned) + 1 THEN 0 ELSE -1
                          ELSE IF Word(i + d + w) > 0
                                 THEN Word(i + d + w) ELSE -1
               IN  IF d > 0 /\ u >= 0
                     THEN [index |-> i, length |-> d + w + u,
                           group |-> SubSeq(cleaned, i, i + d - 1)]
                     ELSE NoMatch
      hits == {i \in 1..Len(cleaned) : At(i) # NoMatch}
  IN  IF hits = {} THEN NoMatch
      ELSE At(CHOOSE i \in hits : \A j \in hits : i <= j)

\* A sanity check without the upper bound.
saneUnbounded(parsedQty) == parsedQty > 0

\* The sanity check on a matched number.
sane(parsedQty) == parsedQty > 0 /\ parsedQty <= 100

\* null as parseLineItem returns it for a line that is dropped.
NoItem == [name |-> <<>>, quantity |-> 0, raw |-> <<>>]

\* parseLineItem: the item, or null for a line that is dropped.  In the order
\* of the code: the bullets and the list number go, the first pattern with a
\* number that passes the sanity check gives the quantity and is cut out, the
\* bullets at both ends of what is left go, and an empty name gives null.
parseLineItem(line) ==
  LET unnumbered(s, d, w) ==
        IF d > 0 /\ w > 0 THEN SubSeq(s, d + w + 1, Len(s)) ELSE s
      numbered(s, d) ==
        unnumbered(s, d, Run(s, d + 1, {".", ")", ":"} \cup Whitespace))
      unbulleted(s) == SubSeq(s, Run(s, 1, Bullets) + 1, Len(s))
      unlisted(s) == numbered(s, Run(s, 1, Digits))
      ended(s, back) == trim(SubSeq(s, 1, Len(s) - Run(back, 1, Bullets)))
      unended(s) == ended(s, [i \in 1..Len(s) |-> s[Len(s) + 1 - i]])
      item(cleaned, name, quantity) ==
        IF Len(line) < 2 \/ cleaned = <<>> \/ name = <<>>
          THEN NoItem
          ELSE [name |-> name, quantity |-> quantity, raw |-> line]
      without(cleaned, m) ==
        trim(SubSeq(cleaned, 1, m.index - 1)
               \o SubSeq(cleaned, m.index + m.length, Len(cleaned)))
      taken(cleaned, m) ==
        item(cleaned, unended(unbulleted(without(cleaned, m))),
             parseInt(m.group))
      usable(m) == m # NoMatch /\ sane(parseInt(m.group))
      first(cleaned, used) ==
        IF used = {}
          THEN item(cleaned, unended(unbulleted(cleaned)), 1)
          ELSE taken(cleaned,
                     match(cleaned,
                           quantityPatterns[CHOOSE k \in used :
                                              \A j \in used : k <= j]))
      patterns(cleaned) ==
        first(cleaned, {k \in DOMAIN quantityPatterns :
                          usable(match(cleaned, quantityPatterns[k]))})
  IN  patterns(trim(unlisted(unbulleted(line))))

\* The lines of the model: up to MaxPieces pieces put together, trimmed and
\* not empty as parseOrderMessage hands them over.
MaxPieces == 4

Lines ==
  LET Pieces == { <<"a">>, <<"X">>, <<" ">>, <<"-">>, <<"0">>, <<"5">>,
                  <<"1","0","0">>, <<"1","0","1">>, <<"p","c","s">>,
                  <<"t","a","b">> }
      RECURSIVE Join(_)
      Join(q) == IF q = <<>> THEN <<>> ELSE Head(q) \o Join(Tail(q))
      all == { Join(q) : q \in UNION {[1..n -> Pieces] : n \in 1..MaxPieces} }
  IN  { l \in all : trim(l) = l }

\* Before the first line is parsed.
NoLine == [line |-> <<>>, returned |-> FALSE, result |-> NoItem]

\* parseOrderMessage hands a line to parseLineItem ...
ParseCall(line) ==
  /\ NoneInFlight
  /\ parse = NoLine
  /\ parse' = [NoLine EXCEPT !.line = line]
  /\ UNCHANGED <<db, pr, cfg, base, sm>>

\* ... and takes what comes back.
ParseReturn ==
  /\ parse.line # <<>>
  /\ ~parse.returned
  /\ parse' = [parse EXCEPT !.returned = TRUE,
                             !.result = parseLineItem(parse.line)]
  /\ UNCHANGED <<db, pr, cfg, base, sm>>

(***************************************************************************)
(* Specifications                                                          *)
(***************************************************************************)
\* The pharmacy row written by the seed script.
SeedPharmacy ==
  [ address |-> <<"1","2","3"," ","M","a","i","n">>,
    pickup_address |-> NullText,
    upi_id |-> "testpharmacy@upi",
    borzoEnabled |-> FALSE ]

\* The address a customer sends.
Addr == trim(BodyText["address"])

EmptyDb ==
  [ orders |-> <<>>, history |-> <<>>, prescriptions |-> <<>>,
    messages |-> <<>>, customers |-> [c \in Customers |-> [address |-> NullText]],
    deliveries |-> <<>>, outbox |-> <<>>, borzo |-> 0 ]

\* The database after a customer's first message.
ReceivedDb ==
  [ EmptyDb EXCEPT
      !.orders = << [ customer_id |-> "c1", status |-> "pending",
                      total_amount |-> NoAmount, payment_method |-> NULL,
                      delivery_address |-> NullText, delivery_id |-> NoRow ] >>,
      !.history = << [ order_id |-> 1, from_status |-> NULL,
                       to_status |-> "pending", changed_by |-> NULL,
                       reason |-> NULL ] >>,
      !.messages = << [ customer_id |-> "c1", order_id |-> 1 ] >> ]

\* ... after START_REVIEW.
InReviewDb ==
  [ ReceivedDb EXCEPT
      !.orders[1].status = "under_review",
      !.history = Append(@, [ order_id |-> 1, from_status |-> "pending",
                              to_status |-> "under_review",
                              changed_by |-> DashboardUser, reason |-> NULL ]) ]

\* ... after the pharmacist asked for a prescription, the customer sent it
\* and the review was started again: under_review -> awaiting_rx ->
\* rx_received -> under_review.
ReviewedAgainDb ==
  [ InReviewDb EXCEPT
      !.history = @ \o
                  << [ order_id |-> 1, from_status |-> "under_review",
                       to_status |-> "awaiting_rx",
                       changed_by |-> DashboardUser, reason |-> NULL ],
                     [ order_id |-> 1, from_status |-> "awaiting_rx",
                       to_status |-> "rx_received", changed_by |-> NULL,
                       reason |-> NULL ],
                     [ order_id |-> 1, from_status |-> "rx_received",
                       to_status |-> "under_review",
                       changed_by |-> DashboardUser, reason |-> NULL ] >>,
      !.prescriptions = << [ order_id |-> 1, customer_id |-> "c1" ] >>,
      !.messages = Append(@, [ customer_id |-> "c1", order_id |-> 1 ]),
      !.outbox = << [ order_id |-> 1, template |-> "rxRequired" ] >> ]

\* ... after CONFIRM_AVAILABILITY (cash on delivery) and the customer's
\* address message.
AddressedDb ==
  [ InReviewDb EXCEPT
      !.orders[1] = [ @ EXCEPT !.status = "confirmed",
                               !.total_amount = 10,
                               !.payment_method = "cod",
                               !.delivery_address = Addr ],
      !.history = Append(@, [ order_id |-> 1, from_status |-> "under_review",
                              to_status |-> "confirmed",
                              changed_by |-> DashboardUser, reason |-> NULL ]),
      !.messages = Append(@, [ customer_id |-> "c1", order_id |-> 1 ]),
      !.customers["c1"].address = Addr ]

\* ... after CANCEL: a customer who comes back with an address on file.
ReturningDb ==
  [ AddressedDb EXCEPT
      !.orders[1].status = "cancelled",
      !.history = Append(@, [ order_id |-> 1, from_status |-> "confirmed",
                              to_status |-> "cancelled",
                              changed_by |-> DashboardUser,
                              reason |-> "Cancelled by pharmacy" ]) ]

\* ... after the customer's next order, START_REVIEW and
\* CONFIRM_AVAILABILITY: an order without an address, an address on file.
ReorderedDb ==
  [ ReturningDb EXCEPT
      !.orders = Append(@, [ customer_id |-> "c1", status |-> "confirmed",
                             total_amount |-> 10, payment_method |-> "cod",
                             delivery_address |-> NullText,
                             delivery_id |-> NoRow ]),
      !.history = @ \o
                  << [ order_id |-> 2, from_status |-> NULL,
                       to_status |-> "pending", changed_by |-> NULL,
                       reason |-> NULL ],
                     [ order_id |-> 2, from_status |-> "pending",
                       to_status |-> "under_review",
                       changed_by |-> DashboardUser, reason |-> NULL ],
                     [ order_id |-> 2, from_status |-> "under_review",
                       to_status |-> "confirmed",
                       changed_by |-> DashboardUser, reason |-> NULL ] >>,
      !.messages = Append(@, [ customer_id |-> "c1", order_id |-> 2 ]) ]

\* The database after two overlapping first messages of a customer (each
\* created an order), RX_REQUIRED on the first order (the notification was
\* not delivered), START_REVIEW and CONFIRM_AVAILABILITY (cash on delivery)
\* on the second: an order that waits for a prescription next to an order
\* that waits for an address.
TwoOpenDb ==
  [ EmptyDb EXCEPT
      !.orders = << [ customer_id |-> "c1", status |-> "awaiting_rx",
                      total_amount |-> NoAmount, payment_method |-> NULL,
                      delivery_address |-> NullText, delivery_id |-> NoRow ],
                    [ customer_id |-> "c1", status |-> "confirmed",
                      total_amount |-> 10, payment_method |-> "cod",
                      delivery_address |-> NullText, delivery_id |-> NoRow ] >>,
      !.history = << [ order_id |-> 1, from_status |-> NULL,
                       to_status |-> "pending", changed_by |-> NULL,
                       reason |-> NULL ],
                     [ order_id |-> 2, from_status |-> NULL,
                       to_status |-> "pending", changed_by |-> NULL,
                       reason |-> NULL ],
                     [ order_id |-> 1, from_status |-> "pending",
                       to_status |-> "awaiting_rx",
                       changed_by |-> DashboardUser, reason |-> NULL ],
                     [ order_id |-> 2, from_status |-> "pending",
                       to_status |-> "under_review",
                       changed_by |-> DashboardUser, reason |-> NULL ],
                     [ order_id |-> 2, from_status |-> "under_review",
                       to_status |-> "confirmed",
                       changed_by |-> DashboardUser, reason |-> NULL ] >>,
      !.messages = << [ customer_id |-> "c1", order_id |-> 1 ],
                      [ customer_id |-> "c1", order_id |-> 2 ] >> ]

\* The databases a run starts from: each is reached from the empty one by
\* the requests named above, handled one at a time without notifications.
StartDbs == { EmptyDb, InReviewDb, ReorderedDb }

InitFrom(dbs) ==
  /\ \E d \in dbs :
       /\ orders = d.orders
       /\ history = d.history
       /\ prescriptions = d.prescriptions
       /\ messages = d.messages
       /\ customers = d.customers
       /\ deliveries = d.deliveries
       /\ outbox = d.outbox
       /\ borzo = d.borzo
       /\ base = [ messages |-> Len(d.messages), history |-> Len(d.history),
                   outbox |-> Len(d.outbox) ]
  /\ pr = [p \in ProcIds |-> Idle]
  /\ cfg \in {[SeedPharmacy EXCEPT !.borzoEnabled = b] : b \in BOOLEAN}
  /\ sm = NoCall
  /\ parse = NoLine

Init == InitFrom(StartDbs)

\* A step of a request in flight, the courier integration apart.
HandlerStep(p) ==
  \/ TransitionRead(p)
  \/ TransitionUpdate(p)
  \/ TransitionLog(p)
  \/ MsgFindPendingRx(p)
  \/ MsgSavePrescription(p)
  \/ MsgPrescriptionReply(p)
  \/ MsgFindOrderWithPrevAddress(p)
  \/ MsgUsePrevAddress(p)
  \/ MsgPrevAddressReply(p)
  \/ MsgFindOrderNeedingAddress(p)
  \/ MsgSaveAddress(p)
  \/ MsgRememberAddress(p)
  \/ MsgAddressReply(p)
  \/ MsgFindAwaitingPayment(p)
  \/ MsgPaymentAckReply(p)
  \/ MsgFindActiveOrder(p)
  \/ MsgActiveOrderReply(p)
  \/ MsgCreateOrder(p)
  \/ MsgCreateOrderLog(p)
  \/ MsgNewOrderReply(p)
  \/ StatusNotify(p)
  \/ StatusRespond(p)
  \/ RxRequestSend(p)
  \/ Return(p)

\* A step of a delivery booking or of the courier's webhook.
CourierStep(p) ==
  \/ BookRead(p)
  \/ BookFind(p)
  \/ BookCreate(p)
  \/ BookLink(p)
  \/ BookCall(p)
  \/ BookStore(p)
  \/ BookFail(p)
  \/ BookSend(p)
  \/ HookUpdateStatus(p)
  \/ HookCourier(p)
  \/ HookCourierSend(p)
  \/ HookDeliveredSend(p)
  \/ HookCompleteOrder(p)

Step(p) == HandlerStep(p) \/ CourierStep(p)

\* A request arrives.
Arrive(p) ==
  \/ \E req \in MsgInputs : MsgReceive(p, req)
  \/ \E req \in StatusRequests(OrderIds) \cup StatusRequestsUnknown :
       StatusRequest(p, req)
  \/ \E id \in 1..(Len(orders) + 1) : RxRequest(p, id)
  \/ \E req \in HookRequests : HookReceive(p, req)

\* Requests are handled one at a time.
Next ==
  \/ \E p \in ProcIds : NoneInFlight /\ Arrive(p)
  \/ \E p \in ProcIds : Step(p)

Spec == Init /\ [][Next]_vars

\* The requests of the runs in which requests overlap: one of each kind,
\* about the newest order.
MsgInputsOverlap ==
  {m \in MsgInputs :
     /\ m.toKnown
     /\ m.body \in IF m.numMedia > 0 THEN {"empty"}
                   ELSE {"order", "yes", "address", "ok_address", "paid"}}

StatusRequestsOverlap ==
  {r \in StatusRequests({Len(orders)} \cap OrderIds) :
     /\ r.notifyCustomer = (r.status \in {"ready_for_pickup", "cancelled"})
     /\ r.totalAmount \in {NoAmount, 10}
     /\ r.status \in {"confirmed", "awaiting_payment"} =>
          /\ r.totalAmount # NoAmount
          /\ (r.paymentMethod = "upi") = (r.status = "awaiting_payment")
     /\ r.reason = NULL}

ArriveOverlap(p) ==
  \/ \E req \in MsgInputsOverlap : MsgReceive(p, req)
  \/ \E req \in StatusRequestsOverlap : StatusRequest(p, req)
  \/ \E id \in {Len(orders)} \cap OrderIds : RxRequest(p, id)

\* Requests overlap: a request may arrive while another is in flight.  The
\* courier integration is switched off, so that no delivery is booked and
\* the courier has nothing to report.
NextConcurrent ==
  \/ \E p \in ProcIds : ArriveOverlap(p)
  \/ \E p \in ProcIds : HandlerStep(p)

InitConcurrent == Init /\ ~cfg.borzoEnabled

SpecConcurrent == InitConcurrent /\ [][NextConcurrent]_vars

\* transitionOrderStatus called directly on a stored order with any event.
TransitionCall(p, id, event) ==
  /\ CanStart(p)
  /\ NoneInFlight
  /\ sm = NoCall
  /\ HistoryBudget
  /\ pr' = [pr EXCEPT ![p] =
              [NewProc("direct", "t_read", [id |-> id, event |-> event])
                 EXCEPT !.oid = id, !.tEvent = event, !.tBy = DashboardUser]]
  /\ UNCHANGED <<db, env>>

\* getNextStatus and transitionOrderStatus called directly, with any status
\* and any event, on the start databases and on one with a pending order.
NextDirect ==
  \/ \E s \in OrderStatus, e \in OrderEvent : SMCall(s, e)
  \/ SMReturn
  \/ \E p \in ProcIds, id \in OrderIds, e \in OrderEvent :
       TransitionCall(p, id, e)
  \/ \E p \in ProcIds :
       TransitionRead(p) \/ TransitionUpdate(p) \/ TransitionLog(p) \/ Return(p)

InitDirect == InitFrom(StartDbs \cup {ReceivedDb})

SpecDirect == InitDirect /\ [][NextDirect]_vars

\* Requests handled one at a time, on the start databases and on the one
\* with two open orders.
InitTies == InitFrom(StartDbs \cup {TwoOpenDb})

SpecTies == InitTies /\ [][Next]_vars

\* The dashboard also updates order details between the requests.
NextDetails ==
  \/ Next
  \/ \E p \in ProcIds, req \in UpdateRequests(1..(Len(orders) + 1)) :
       NoneInFlight /\ updateOrder(p, req)

SpecDetails == Init /\ [][NextDetails]_vars

\* The same requests, also on the order that is under review for the second
\* time.
SpecReviewedAgain ==
  InitFrom(StartDbs \cup {ReviewedAgainDb}) /\ [][NextDetails]_vars

\* Requests handled one at a time, where a statement of the message handler
\* may raise.
NextFaults ==
  \/ Next
  \/ \E p \in ProcIds : MsgRaise(p)

SpecFaults == Init /\ [][NextFaults]_vars

\* Transitions a run of racing dashboard requests may commit.
MaxRacing == 3

\* updateOrderStatus entered for the newest order while other requests for
\* it are in flight: a confirmation with either payment method or the
\* receipt of the payment, without notification.
StatusRequestRacing(p, req) ==
  /\ CanStart(p)
  /\ Len(history) - base.history + Cardinality({q \in ProcIds : MayLog(q)})
       < MaxRacing
  /\ req.status \in {"confirmed", "awaiting_payment", "payment_confirmed"}
  /\ ~req.notifyCustomer
  /\ req.totalAmount = IF req.status = "payment_confirmed" THEN NoAmount ELSE 10
  /\ req.paymentMethod = IF req.status = "awaiting_payment" THEN "upi" ELSE NULL
  /\ req.reason = NULL
  /\ pr' = [pr EXCEPT ![p] =
              [NewProc("status", "t_read", req)
                 EXCEPT !.oid = req.id, !.snap = orders[req.id],
                        !.tEvent = EventFor(req), !.tBy = DashboardUser]]
  /\ UNCHANGED <<db, env>>

NextRacing ==
  \/ \E p \in ProcIds, req \in StatusRequests({Len(orders)} \cap OrderIds) :
       StatusRequestRacing(p, req)
  \/ \E p \in ProcIds :
       \/ TransitionRead(p)
       \/ TransitionUpdate(p)
       \/ TransitionLog(p)
       \/ StatusRespond(p)
       \/ Return(p)

SpecRacing == InitConcurrent /\ [][NextRacing]_vars

\* parseLineItem called on every line of the model.
NextParser ==
  \/ parse = NoLine /\ \E line \in Lines : ParseCall(line)
  \/ ParseReturn

SpecParser == InitFrom({EmptyDb}) /\ [][NextParser]_vars

\* The database after MARK_READY on the addressed order, requested without
\* a notification: the order is ready, no delivery has been booked.
ReadyDb ==
  [ AddressedDb EXCEPT
      !.orders[1].status = "ready_for_pickup",
      !.history = Append(@, [ order_id |-> 1, from_status |-> "confirmed",
                              to_status |-> "ready_for_pickup",
                              changed_by |-> DashboardUser, reason |-> NULL ]) ]

\* A step of a manual booking, of a cancellation, of a price estimate or of
\* the courier's webhook.
DeliveryStep(p) ==
  \/ CourierStep(p)
  \/ DeliveryFind(p)
  \/ CancelRead(p)
  \/ CancelProvider(p)
  \/ CancelUpdate(p)
  \/ EstimateRead(p)
  \/ EstimateCalculating(p)
  \/ EstimateCall(p)
  \/ EstimateStore(p)
  \/ EstimateFail(p)
  \/ Return(p)

\* A request to a delivery endpoint, or a webhook of the courier, arrives.
ArriveDelivery(p) ==
  \/ \E id \in 1..(Len(orders) + 1) : BookRequest(p, id)
  \/ \E id \in 1..(Len(orders) + 1) : CancelRequest(p, id)
  \/ \E id \in 1..(Len(orders) + 1) : EstimateRequest(p, id)
  \/ \E req \in HookRequests : HookReceive(p, req)

InitDelivery == InitFrom({ReadyDb})

\* The delivery endpoints and the webhook, one request at a time.
NextDelivery ==
  \/ \E p \in ProcIds : NoneInFlight /\ ArriveDelivery(p)
  \/ \E p \in ProcIds : DeliveryStep(p)

SpecDelivery == InitDelivery /\ [][NextDelivery]_vars

\* A handler that has been called runs to its end: every awaited call
\* returns or raises.
SpecDeliveryFair ==
  SpecDelivery /\ \A p \in ProcIds : WF_vars(DeliveryStep(p))

\* A step of bookDeliveryAndNotify.
BookingStep(p) ==
  \/ BookRead(p)
  \/ BookFind(p)
  \/ BookCreate(p)
  \/ BookLink(p)
  \/ BookCall(p)
  \/ BookStore(p)
  \/ BookFail(p)
  \/ BookSend(p)

\* Manual bookings that overlap: a booking request may arrive while another
\* is in flight.
NextBookingConcurrent ==
  \/ \E p \in ProcIds, id \in OrderIds : BookRequest(p, id)
  \/ \E p \in ProcIds : BookingStep(p) \/ Return(p)

SpecBookingConcurrent == InitDelivery /\ [][NextBookingConcurrent]_vars

(***************************************************************************)
(* Properties                                                              *)
(***************************************************************************)
\* The transition table as the specification lists it: status, event type,
\* next status.  CONFIRM_AVAILABILITY is listed apart.
ListedTransitions ==
  { <<"pending", "RX_REQUIRED", "awaiting_rx">>,
    <<"pending", "START_REVIEW", "under_review">>,
    <<"awaiting_rx", "RX_UPLOADED", "rx_received">>,
    <<"rx_received", "START_REVIEW", "under_review">>,
    <<"under_review", "ITEMS_UNAVAILABLE", "cancelled">>,
    <<"under_review", "RX_REQUIRED", "awaiting_rx">>,
    <<"confirmed", "MARK_READY", "ready_for_pickup">>,
    <<"awaiting_payment", "PAYMENT_RECEIVED", "payment_confirmed">>,
    <<"payment_confirmed", "MARK_READY", "ready_for_pickup">>,
    <<"ready_for_pickup", "MARK_COMPLETED", "completed">> }
  \cup { <<s, "CANCEL", "cancelled">> :
           s \in OrderStatus \ {"completed", "cancelled"} }

\* The statuses the specification lists after an event, for a stored status.
ListedNext(status, event) ==
  IF status = "under_review" /\ event.type = "CONFIRM_AVAILABILITY"
    THEN { IF event.paymentMethod = "upi"
             THEN "awaiting_payment" ELSE "confirmed" }
    ELSE { t[3] : t \in { u \in ListedTransitions :
                            u[1] = status /\ u[2] = event.type } }

\* C1: for every listed (status, event) pair a direct call of getNextStatus
\* returns exactly the listed next status; CONFIRM_AVAILABILITY on
\* under_review returns awaiting_payment for upi and confirmed for cod,
\* whatever the amount.
C1_ListedPairs ==
  (sm.result # Unset /\ ListedNext(sm.status, sm.event) # {})
    => ListedNext(sm.status, sm.event) = {sm.result}

\* A call for a listed pair has returned: CONFIRM_AVAILABILITY with upi.
C1_Witness ==
  /\ sm.status = "under_review"
  /\ sm.event.type = "CONFIRM_AVAILABILITY"
  /\ sm.event.paymentMethod = "upi"
  /\ sm.event.totalAmount = 20
  /\ sm.result = "awaiting_payment"

\* A step of transitionOrderStatus in which getNextStatus rejects the event.
Rejects(p) ==
  /\ pr[p].kind # "idle"
  /\ pr[p].pc = "t_read"
  /\ pr'[p] # pr[p]
  /\ ListedNext(orders[pr[p].oid].status, pr[p].tEvent) = {}

\* C2: for every (status, event) pair absent from the table, completed and
\* cancelled with every event included, getNextStatus returns null and
\* transitionOrderStatus throws an invalid-transition error that names the
\* stored status and the event, and writes nothing: the order row and the
\* status history are as before.
C2_AbsentPairsRejected ==
  [][ /\ (sm'.result # Unset /\ ListedNext(sm'.status, sm'.event) = {})
          => sm'.result = NULL
      /\ \A p \in ProcIds :
           Rejects(p) =>
             /\ pr'[p].pc = "done"
             /\ pr'[p].resp =
                  [thrown |-> [error |-> "Invalid transition",
                               event |-> pr[p].tEvent.type,
                               status |-> orders[pr[p].oid].status]]
             /\ orders' = orders
             /\ history' = history
      /\ \A p \in ProcIds :
           (pr[p].kind # "idle" /\ pr[p].pc = "done"
              /\ "thrown" \in DOMAIN pr[p].resp)
             => (orders' = orders /\ history' = history) ]_vars

\* transitionOrderStatus has thrown for an event applied to a cancelled order.
C2_Witness ==
  \E p \in ProcIds :
    /\ pr[p].kind = "direct"
    /\ pr[p].pc = "done"
    /\ "thrown" \in DOMAIN pr[p].resp
    /\ orders[pr[p].oid].status = "cancelled"
    /\ pr[p].tEvent.type = "CANCEL"

\* The step in which process p commits the status it computed.
WritesStatus(p) ==
  /\ pr[p].kind # "idle"
  /\ pr[p].pc = "t_update"
  /\ pr'[p].pc = "t_log"

\* C3: validation and write of a transition are one atomic read-modify-write:
\* every write of orders.status by transitionOrderStatus goes from the status
\* stored just before the write, which is the status the request validated
\* against, to a status the table lists for it.
C3_AtomicReadModifyWrite ==
  [][ \A p \in ProcIds :
        WritesStatus(p) =>
          /\ pr[p].tFrom = orders[pr[p].oid].status
          /\ orders'[pr[p].oid].status
               \in ListedNext(orders[pr[p].oid].status, pr[p].tEvent) ]_vars

\* C4: a new order is created for a customer only while the customer has no
\* non-terminal order, so that two overlapping messages of a customer
\* without an open order create one order and not two.
C4_OneNewOrder ==
  [][ Len(orders') > Len(orders) =>
        \A o \in OrderIds :
          orders[o].customer_id = orders'[Len(orders')].customer_id
            => isTerminalStatus(orders[o].status) ]_vars

\* C5: the orchestrator is the only writer of an order's status: every
\* change of a stored status is the write of transitionOrderStatus and is a
\* listed transition.
C5_SoleWriterOfStatus ==
  [][ \A o \in OrderIds :
        orders'[o].status # orders[o].status =>
          \E p \in ProcIds :
            /\ WritesStatus(p)
            /\ pr[p].oid = o
            /\ orders'[o].status
                 \in ListedNext(orders[o].status, pr[p].tEvent) ]_vars

\* C6: completed and cancelled are terminal: no step of any operation
\* changes the status of an order that is completed or cancelled.
C6_TerminalStatusesStay ==
  [][ \A o \in OrderIds :
        isTerminalStatus(orders[o].status)
          => orders'[o].status = orders[o].status ]_vars

\* The history records of an order, oldest first.
HistoryOf(o) == SelectSeq(history, LAMBDA h : h.order_id = o)

\* The records of an order tell its status changes: creation first, each
\* record starting from the status the one before led to, the last one
\* leading to the stored status.
HistoryTellsStatus(o) ==
  LET h == HistoryOf(o)
  IN  /\ Len(h) > 0
      /\ h[1].from_status = NULL
      /\ h[1].to_status = "pending"
      /\ \A i \in 2..Len(h) : h[i].from_status = h[i - 1].to_status
      /\ h[Len(h)].to_status = orders[o].status

\* C7: the status history holds one record per status change: whenever no
\* request is being handled, every order's records run from its creation,
\* change by change, to its stored status.
C7_HistoryRecordsEveryChange ==
  NoneInFlight => \A o \in OrderIds : HistoryTellsStatus(o)

\* The customer's orders that wait for a prescription.
AwaitingRx(c) ==
  {o \in OrderIds : orders[o].customer_id = c /\ orders[o].status = "awaiting_rx"}

\* Process p is in the prescription branch of the message handler.
InPrescriptionBranch(p) ==
  /\ pr[p].kind = "msg"
  /\ pr[p].pc \in {"rx_insert", "t_read", "t_update", "t_log", "rx_attr"}

\* C8: a message with media from a customer with an order in awaiting_rx
\* enters the prescription branch for that order; the branch inserts one
\* prescription row for the order, creates no order, and ends with the order
\* in rx_received, a history record awaiting_rx -> rx_received without an
\* actor, and the message attributed to the order.
C8_PrescriptionUpload ==
  [][ \A p \in ProcIds :
        /\ (pr[p].kind = "idle" /\ pr'[p].kind = "msg" /\ pr'[p].pc # "done"
               /\ pr'[p].req.numMedia > 0)
             => pr'[p].pc = "rx_find"
        /\ (pr[p].kind = "msg" /\ pr[p].pc = "rx_find" /\ pr'[p] # pr[p]
               /\ AwaitingRx(pr[p].req.from) # {})
             => pr'[p].pc = "rx_insert"
        /\ (pr[p].kind = "msg" /\ pr[p].pc = "rx_find"
               /\ pr'[p].pc = "rx_insert")
             => pr'[p].oid \in AwaitingRx(pr[p].req.from)
        /\ (InPrescriptionBranch(p) /\ pr'[p] # pr[p]) =>
             /\ Len(orders') = Len(orders)
             /\ pr'[p].oid = pr[p].oid
             /\ prescriptions' =
                  IF pr[p].pc = "rx_insert"
                    THEN Append(prescriptions, [order_id |-> pr[p].oid,
                                                customer_id |-> pr[p].req.from])
                    ELSE prescriptions
             /\ pr'[p].pc = "done" =>
                  /\ pr'[p].resp = [reply |-> "rx_received", order |-> pr[p].oid]
                  /\ orders'[pr[p].oid].status = "rx_received"
                  /\ history'[Len(history')] =
                       [order_id |-> pr[p].oid, from_status |-> "awaiting_rx",
                        to_status |-> "rx_received", changed_by |-> NULL,
                        reason |-> NULL]
                  /\ \E i \in 1..Len(prescriptions') :
                       prescriptions'[i].order_id = pr[p].oid
                  /\ messages'[pr[p].msg].order_id = pr[p].oid ]_vars

\* A prescription upload has been handled to the end.
C8_Witness ==
  \E p \in ProcIds :
    /\ pr[p].kind = "msg"
    /\ pr[p].pc = "done"
    /\ pr[p].req.numMedia > 0
    /\ pr[p].resp = [reply |-> "rx_received", order |-> pr[p].oid]
    /\ orders[pr[p].oid].status = "rx_received"
    /\ Len(prescriptions) > 0

\* The customer's orders that wait for payment.
AwaitingPayment(c) ==
  {o \in OrderIds :
     orders[o].customer_id = c /\ orders[o].status = "awaiting_payment"}

\* C9: a payment acknowledgement from a customer with an order in
\* awaiting_payment changes nothing but the order attribution of the message:
\* the order stays in awaiting_payment and no history record is added; an
\* order leaves awaiting_payment for payment_confirmed only by the
\* dashboard's PAYMENT_RECEIVED.
C9_PaymentAckOnlyAttributes ==
  [][ /\ \A p \in ProcIds :
           /\ (pr[p].kind = "idle" /\ pr'[p].kind = "msg" /\ pr'[p].pc # "done"
                  /\ pr'[p].req.numMedia = 0 /\ isPaymentAck(Body(pr'[p])))
                => pr'[p].pc = "pay_find"
           /\ (pr[p].kind = "msg" /\ pr[p].pc = "pay_find" /\ pr'[p] # pr[p]
                  /\ AwaitingPayment(pr[p].req.from) # {}) =>
                /\ pr'[p].pc = "pay_attr"
                /\ pr'[p].oid \in AwaitingPayment(pr[p].req.from)
                /\ UNCHANGED db
           /\ (pr[p].kind = "msg" /\ pr[p].pc = "pay_attr" /\ pr'[p] # pr[p]) =>
                /\ orders[pr[p].oid].status = "awaiting_payment"
                /\ UNCHANGED <<orders, history, prescriptions, customers, courier>>
                /\ messages' = [messages EXCEPT ![pr[p].msg].order_id = pr[p].oid]
                /\ pr'[p].pc = "done"
                /\ pr'[p].resp = [reply |-> "payment_noted", order |-> pr[p].oid]
      /\ \A o \in OrderIds :
           (orders[o].status = "awaiting_payment"
              /\ orders'[o].status = "payment_confirmed") =>
             \E p \in ProcIds :
               /\ pr[p].kind = "status"
               /\ WritesStatus(p)
               /\ pr[p].oid = o
               /\ pr[p].tEvent.type = "PAYMENT_RECEIVED" ]_vars

\* A payment acknowledgement has been answered; the order waits for payment.
C9_Witness ==
  \E p \in ProcIds :
    /\ pr[p].kind = "msg"
    /\ pr[p].pc = "done"
    /\ isPaymentAck(Body(pr[p]))
    /\ pr[p].resp = [reply |-> "payment_noted", order |-> pr[p].oid]
    /\ orders[pr[p].oid].status = "awaiting_payment"
    /\ messages[pr[p].msg].order_id = pr[p].oid

\* The body, lower-cased, has an affirmation token somewhere in it.
ContainsToken(b) == \E t \in AffirmationTokens : Contains(toLowerCase(b), t)

\* The body, lower-cased and trimmed, is an affirmation token.
EqualsToken(b) == \E t \in AffirmationTokens : trim(toLowerCase(b)) = t

\* The customer has an address on file.
HasPriorAddress(c) == customers[c].address \notin {NullText, <<>>}

\* The customer's orders that wait for a delivery address.
Eligible(c) ==
  {o \in OrderIds :
     /\ orders[o].customer_id = c
     /\ orders[o].status \in {"ready_for_pickup", "payment_confirmed", "confirmed"}
     /\ orders[o].delivery_address = NullText}

\* A message without media arrives and process p starts to classify it.
Classifies(p) ==
  /\ pr[p].kind = "idle"
  /\ pr'[p].kind = "msg"
  /\ pr'[p].pc # "done"
  /\ pr'[p].req.numMedia = 0

\* C10 as stated: a message that is address-shaped and contains an
\* affirmation token, from a customer with an address on file and an eligible
\* order, goes to branch 2, which copies the address on file onto the order,
\* and never to branch 3, which stores the message body.
C10_TokenInAddressUsesPrior ==
  [][ \A p \in ProcIds :
        /\ (Classifies(p) /\ isAddressReply(Body(pr'[p]))
               /\ ContainsToken(Body(pr'[p]))
               /\ HasPriorAddress(pr'[p].req.from)
               /\ Eligible(pr'[p].req.from) # {})
             => pr'[p].pc = "affirm_find"
        /\ (pr[p].kind = "msg" /\ pr[p].pc = "addr_set" /\ pr'[p] # pr[p]
               /\ ContainsToken(Body(pr[p]))
               /\ HasPriorAddress(pr[p].req.from))
             => orders'[pr[p].oid].delivery_address
                  = customers[pr[p].req.from].address ]_vars

\* C10 as the handler has it: a message whose body, lower-cased and trimmed,
\* equals an affirmation token goes to branch 2 when the customer has an
\* address on file and an eligible order, and the address on file is copied
\* onto the latest eligible order; such a message never reaches branch 3.  An
\* address-shaped message that only contains a token is no affirmation: with
\* an eligible order it goes to branch 3 and its trimmed body is stored as
\* the delivery address and as the customer's address.
C10_ExactTokenUsesPrior ==
  [][ \A p \in ProcIds :
        /\ (Classifies(p) /\ EqualsToken(Body(pr'[p])))
             => pr'[p].pc = "affirm_find"
        /\ (Classifies(p) /\ ~EqualsToken(Body(pr'[p]))
               /\ isAddressReply(Body(pr'[p])))
             => pr'[p].pc = "addr_find"
        /\ (pr[p].kind = "msg" /\ pr[p].pc = "affirm_find" /\ pr'[p] # pr[p]
               /\ HasPriorAddress(pr[p].req.from)
               /\ Eligible(pr[p].req.from) # {}) =>
             /\ pr'[p].pc = "affirm_set"
             /\ pr'[p].oid = Max(Eligible(pr[p].req.from))
        /\ (pr[p].kind = "msg" /\ pr[p].pc = "affirm_set" /\ pr'[p] # pr[p]) =>
             /\ EqualsToken(Body(pr[p]))
             /\ orders' = [orders EXCEPT ![pr[p].oid].delivery_address =
                                            customers[pr[p].req.from].address]
             /\ customers' = customers
        /\ (pr[p].kind = "msg" /\ pr[p].pc = "addr_find" /\ pr'[p] # pr[p]
               /\ Eligible(pr[p].req.from) # {}) =>
             /\ pr'[p].pc = "addr_set"
             /\ pr'[p].oid = Max(Eligible(pr[p].req.from))
        /\ (pr[p].kind = "msg" /\ pr[p].pc = "addr_set" /\ pr'[p] # pr[p]) =>
             /\ ~EqualsToken(Body(pr[p]))
             /\ orders' = [orders EXCEPT ![pr[p].oid].delivery_address =
                                            trim(Body(pr[p]))]
        /\ (pr[p].kind = "msg" /\ pr[p].pc = "addr_cust" /\ pr'[p] # pr[p]) =>
             customers' = [customers EXCEPT ![pr[p].req.from].address =
                                              trim(Body(pr[p]))] ]_vars

\* An address that begins with "ok," is about to be stored on the order of a
\* customer who has another address on file.
C10_Witness ==
  \E p \in ProcIds :
    /\ pr[p].kind = "msg"
    /\ pr[p].pc = "addr_set"
    /\ isAddressReply(Body(pr[p]))
    /\ ContainsToken(Body(pr[p]))
    /\ ~EqualsToken(Body(pr[p]))
    /\ HasPriorAddress(pr[p].req.from)
    /\ customers[pr[p].req.from].address # trim(Body(pr[p]))
    /\ pr[p].oid \in Eligible(pr[p].req.from)

\* The classification checks in their order, as the specification lists them:
\* the condition on the message, the order the check looks for, and the
\* steps, the reply and the first step of the branch it opens.
CheckApplies(k, req) ==
  CASE k = 1 -> req.numMedia > 0
    [] k = 2 -> EqualsToken(BodyText[req.body])
    [] k = 3 -> isAddressReply(BodyText[req.body])
    [] k = 4 -> isPaymentAck(BodyText[req.body])
    [] OTHER -> TRUE

\* The first check from the k-th on that the message passes.
FirstCheck(req, k) == CHOOSE j \in k..5 :
  CheckApplies(j, req) /\ \A i \in k..(j - 1) : ~CheckApplies(i, req)

CheckTargets(k, c) ==
  CASE k = 1 -> AwaitingRx(c)
    [] k = 2 -> IF HasPriorAddress(c) THEN Eligible(c) ELSE {}
    [] k = 3 -> Eligible(c)
    [] k = 4 -> AwaitingPayment(c)
    [] OTHER -> {o \in OrderIds : orders[o].customer_id = c
                                   /\ ~isTerminalStatus(orders[o].status)}

FindPc == <<"rx_find", "affirm_find", "addr_find", "pay_find", "active_find">>

BranchPcs ==
  << {"rx_insert", "t_read", "t_update", "t_log", "rx_attr"},
     {"affirm_set", "affirm_attr"},
     {"addr_set", "addr_cust", "addr_attr"},
     {"pay_attr"},
     {"active_attr"},
     {"create", "create_log", "create_attr"} >>

BranchReply ==
  << "rx_received", "saved_address", "address_saved", "payment_noted",
     "message_received", "order_received" >>

\* C11: a message to a registered pharmacy passes the checks in the fixed
\* order and exactly one branch fires, the first whose condition holds: the
\* handler stays in that branch to its end, where the message is attributed
\* once, to the order of the branch, and the reply of the branch is returned.
\* Only branch 1 adds a prescription or changes a status, only branches 2 and
\* 3 write a delivery address, only branch 6 adds an order; so a message with
\* media that is address-shaped attaches the prescription and stores no
\* address when an order waits for the prescription.
C11_FirstMatchingBranch ==
  [][ \A p \in ProcIds :
        /\ (pr[p].kind = "idle" /\ pr'[p].kind = "msg" /\ pr'[p].req.toKnown) =>
             pr'[p].pc = FindPc[FirstCheck(pr'[p].req, 1)]
        /\ \A k \in 1..5 :
             (pr[p].kind = "msg" /\ pr[p].pc = FindPc[k] /\ pr'[p] # pr[p]) =>
               /\ UNCHANGED db
               /\ IF CheckTargets(k, pr[p].req.from) # {}
                    THEN /\ pr'[p].pc \in BranchPcs[k]
                         /\ pr'[p].oid = Max(CheckTargets(k, pr[p].req.from))
                    ELSE pr'[p].pc = IF k = 5 THEN "create"
                                     ELSE FindPc[FirstCheck(pr[p].req, k + 1)]
        /\ \A b \in 1..6 :
             (pr[p].kind = "msg" /\ pr[p].pc \in BranchPcs[b]
                /\ pr'[p] # pr[p]) =>
               /\ \/ pr'[p].pc \in BranchPcs[b] /\ messages' = messages
                  \/ /\ pr'[p].pc = "done"
                     /\ pr'[p].resp = [reply |-> BranchReply[b],
                                       order |-> pr'[p].oid]
                     /\ pr'[p].oid \in 1..Len(orders')
                     /\ messages[pr[p].msg].order_id = NoRow
                     /\ messages' = [messages EXCEPT
                                       ![pr[p].msg].order_id = pr'[p].oid]
               /\ b # 1 => /\ prescriptions' = prescriptions
                           /\ history' # history => b = 6
                           /\ \A o \in OrderIds :
                                orders'[o].status = orders[o].status
               /\ b \notin {2, 3} =>
                    \A o \in OrderIds :
                      orders'[o].delivery_address = orders[o].delivery_address
               /\ b # 3 => customers' = customers
               /\ b # 6 => Len(orders') = Len(orders) ]_vars

\* A message with media and an address-shaped body has been answered as a
\* prescription upload while another order of the customer still waits for
\* an address.
C11_Witness ==
  \E p \in ProcIds :
    /\ pr[p].kind = "msg"
    /\ pr[p].pc = "done"
    /\ pr[p].req.numMedia > 0
    /\ isAddressReply(Body(pr[p]))
    /\ pr[p].resp = [reply |-> "rx_received", order |-> pr[p].oid]
    /\ Eligible(pr[p].req.from) # {}
    /\ pr[p].oid \notin Eligible(pr[p].req.from)
    /\ \E i \in 1..Len(prescriptions) : prescriptions[i].order_id = pr[p].oid

\* The customer's orders that are neither completed nor cancelled.
Open(c) ==
  {o \in OrderIds :
     orders[o].customer_id = c /\ ~isTerminalStatus(orders[o].status)}

\* C12: a message creates an order only when the lookup of the customer's
\* non-terminal orders found none: the order is appended in status pending,
\* followed by one history record null -> pending.  When the lookup finds an
\* order the message is attributed to the latest one and nothing else is
\* written: no order is added and no status changes.
C12_NewOrderOnlyWithoutOpenOrder ==
  [][ /\ Len(orders') # Len(orders) =>
           \E p \in ProcIds : pr[p].kind = "msg" /\ pr[p].pc = "create"
                               /\ pr'[p].pc = "create_log"
      /\ \A p \in ProcIds :
           /\ (pr[p].kind = "msg" /\ pr'[p].kind = "msg" /\ pr'[p].pc = "create"
                  /\ pr[p].pc # "create") =>
                /\ pr[p].pc = "active_find"
                /\ Open(pr[p].req.from) = {}
           /\ (pr[p].kind = "msg" /\ pr[p].pc = "active_find" /\ pr'[p] # pr[p]
                  /\ Open(pr[p].req.from) # {}) =>
                /\ pr'[p].pc = "active_attr"
                /\ pr'[p].oid = Max(Open(pr[p].req.from))
                /\ UNCHANGED db
           /\ (pr[p].kind = "msg" /\ pr[p].pc = "active_attr" /\ pr'[p] # pr[p]) =>
                /\ messages' = [messages EXCEPT ![pr[p].msg].order_id = pr[p].oid]
                /\ UNCHANGED <<orders, history, prescriptions, customers, courier>>
                /\ pr'[p].resp = [reply |-> "message_received",
                                  order |-> pr[p].oid]
           /\ (pr[p].kind = "msg" /\ pr[p].pc = "create" /\ pr'[p] # pr[p]) =>
                /\ Len(orders') = Len(orders) + 1
                /\ SubSeq(orders', 1, Len(orders)) = orders
                /\ orders'[Len(orders')].status = "pending"
                /\ orders'[Len(orders')].customer_id = pr[p].req.from
                /\ pr'[p].oid = Len(orders')
                /\ pr'[p].pc = "create_log"
                /\ history' = history
           /\ (pr[p].kind = "msg" /\ pr[p].pc = "create_log" /\ pr'[p] # pr[p]) =>
                /\ history' = Append(history,
                                [order_id |-> pr[p].oid, from_status |-> NULL,
                                 to_status |-> "pending", changed_by |-> NULL,
                                 reason |-> NULL])
                /\ orders' = orders
                /\ pr'[p].pc = "create_attr"
           /\ (pr[p].kind = "msg" /\ pr[p].pc = "create_attr" /\ pr'[p] # pr[p]) =>
                /\ orders' = orders /\ history' = history
                /\ pr'[p].pc = "done" ]_vars

\* A message has been answered with a new order, which is pending and has
\* its creation record.
C12_Witness ==
  \E p \in ProcIds :
    /\ pr[p].kind = "msg"
    /\ pr[p].pc = "done"
    /\ pr[p].resp = [reply |-> "order_received", order |-> pr[p].oid]
    /\ pr[p].oid = Len(orders)
    /\ orders[pr[p].oid].status = "pending"
    /\ \E i \in 1..Len(history) :
         history[i] = [order_id |-> pr[p].oid, from_status |-> NULL,
                       to_status |-> "pending", changed_by |-> NULL,
                       reason |-> NULL]

\* C13: for a body that is an affirmation token, whatever its case, the
\* address on file of a customer who has one is copied onto the latest order
\* in ready_for_pickup, payment_confirmed or confirmed without a delivery
\* address; the status of the order and the customer's address stay as they
\* are.  Without an address on file, or without such an order, branch 2 is
\* not entered and the lookup writes nothing.
C13_AffirmationCopiesPriorAddress ==
  [][ \A p \in ProcIds :
        /\ (pr[p].kind = "idle" /\ pr'[p].kind = "msg" /\ pr'[p].req.toKnown
               /\ pr'[p].req.numMedia = 0 /\ EqualsToken(Body(pr'[p])))
             => pr'[p].pc = "affirm_find"
        /\ (pr[p].kind = "msg" /\ pr[p].pc = "affirm_find" /\ pr'[p] # pr[p]) =>
             /\ UNCHANGED db
             /\ IF HasPriorAddress(pr[p].req.from)
                     /\ Eligible(pr[p].req.from) # {}
                  THEN /\ pr'[p].pc = "affirm_set"
                       /\ pr'[p].oid = Max(Eligible(pr[p].req.from))
                  ELSE pr'[p].pc \notin {"affirm_set", "affirm_attr"}
        /\ (pr[p].kind = "msg" /\ pr[p].pc = "affirm_set" /\ pr'[p] # pr[p]) =>
             /\ HasPriorAddress(pr[p].req.from)
             /\ orders' = [orders EXCEPT ![pr[p].oid].delivery_address =
                                            customers[pr[p].req.from].address]
             /\ customers' = customers
             /\ history' = history
             /\ pr'[p].pc = "affirm_attr"
        /\ (pr[p].kind = "msg" /\ pr[p].pc = "affirm_attr" /\ pr'[p] # pr[p]) =>
             /\ orders' = orders
             /\ customers' = customers
             /\ history' = history
             /\ pr'[p].resp = [reply |-> "saved_address", order |-> pr[p].oid]
        /\ (pr'[p].kind = "msg" /\ pr'[p].pc \in {"affirm_set", "affirm_attr"}) =>
             /\ pr[p].kind = "msg"
             /\ pr[p].pc \in {"affirm_find", "affirm_set", "affirm_attr"} ]_vars

\* "YES" in capitals has been answered: the order has the address on file
\* and is still confirmed.
C13_Witness ==
  \E p \in ProcIds :
    /\ pr[p].kind = "msg"
    /\ pr[p].pc = "done"
    /\ Body(pr[p]) # toLowerCase(Body(pr[p]))
    /\ pr[p].resp = [reply |-> "saved_address", order |-> pr[p].oid]
    /\ orders[pr[p].oid].delivery_address = customers[pr[p].req.from].address
    /\ orders[pr[p].oid].delivery_address # NullText
    /\ orders[pr[p].oid].status = "confirmed"

\* C14: a delivery address, once set, stays: no step of any request changes
\* the delivery address of an order that has one.
C14_DeliveryAddressImmutable ==
  [][ \A o \in OrderIds :
        orders[o].delivery_address # NullText
          => orders'[o].delivery_address = orders[o].delivery_address ]_vars

\* The statuses before the confirmation.
BeforeConfirmation == {"pending", "awaiting_rx", "rx_received", "under_review"}

\* The order has a history record of a CONFIRM_AVAILABILITY transition.
WasConfirmed(o) ==
  \E i \in 1..Len(history) :
    /\ history[i].order_id = o
    /\ history[i].to_status \in {"confirmed", "awaiting_payment"}

\* C15: the total amount is set only at or after the confirmation: an order
\* in pending, awaiting_rx, rx_received or under_review that was never
\* confirmed has no total amount, whatever the dashboard did.
C15_AmountOnlyAfterConfirmation ==
  \A o \in OrderIds :
    (orders[o].status \in BeforeConfirmation /\ ~WasConfirmed(o))
      => orders[o].total_amount = NoAmount

\* A status request that has committed its transition and has returned.
Committed(p, type) ==
  /\ pr[p].kind = "status"
  /\ pr[p].pc = "done"
  /\ pr[p].tEvent.type = type
  /\ pr[p].tNext # NULL

\* The order has a delivery on which a booking has been attempted: the
\* provider was called and the delivery is booked or failed, or has moved on.
BookingAttempted(o) ==
  \E d \in DeliveriesOf(o) : deliveries[d].status # "pending"

\* C16: a MARK_READY transition to ready_for_pickup with the courier
\* integration enabled and a delivery address on the order leaves a delivery
\* of the order with a booking attempted, whether or not the request asked
\* to notify the customer.
C16_ReadyAlwaysBooks ==
  \A p \in ProcIds :
    (/\ Committed(p, "MARK_READY")
     /\ pr[p].tNext = "ready_for_pickup"
     /\ cfg.borzoEnabled
     /\ orders[pr[p].oid].delivery_address \notin {NullText, <<>>})
      => BookingAttempted(pr[p].oid)

\* The delivery row holds what the provider returned for the booking.
BookedWith(d, provider, price) ==
  /\ deliveries[d].status = "booked"
  /\ deliveries[d].borzo_order_id = provider
  /\ deliveries[d].tracking_url # NULL
  /\ price # NoAmount
  /\ deliveries[d].final_price = price

BookingFailed(p) ==
  /\ Committed(p, "MARK_READY")
  /\ cfg.borzoEnabled
  /\ pr[p].req.notifyCustomer
  /\ pr[p].provider = NoRow

\* The fallback message for the order.
Fallback(o) ==
  IF orders[o].delivery_address \notin {NullText, <<>>}
    THEN "orderReadyDeliveryPending" ELSE "orderReady"

\* C18: when the booking fails during the MARK_READY handling, the order is
\* and stays ready_for_pickup, the delivery on which the provider was called
\* is failed, and the one message the request sends the customer is the
\* fallback: ready with the delivery pending when the order has a delivery
\* address, plain ready when it has none.
C18_BookingFailureFallsBack ==
  \A p \in ProcIds :
    BookingFailed(p)
      => /\ orders[pr[p].oid].status = "ready_for_pickup"
         /\ ~pr[p].booked
         /\ (orders[pr[p].oid].delivery_address \notin {NullText, <<>>})
              <=> (pr[p].deliv # NoRow)
         /\ pr[p].deliv # NoRow
              => /\ pr[p].deliv \in DeliveriesOf(pr[p].oid)
                 /\ deliveries[pr[p].deliv].status = "failed"
         /\ pr[p].sent \in {<<>>, <<Fallback(pr[p].oid)>>}
         /\ pr[p].resp.http = 200 => pr[p].sent = <<Fallback(pr[p].oid)>>

\* The provider call raised for an order with a delivery address: the order
\* is ready_for_pickup, its delivery failed, the customer was told that the
\* delivery is pending.
C18_Witness ==
  \E p \in ProcIds :
    /\ BookingFailed(p)
    /\ orders[pr[p].oid].status = "ready_for_pickup"
    /\ pr[p].deliv # NoRow
    /\ deliveries[pr[p].deliv].status = "failed"
    /\ pr[p].sent = <<"orderReadyDeliveryPending">>

\* The external statuses of the fixed table.
Recognized ==
  { "available", "active", "performer_found", "performer_on_the_way",
    "delivering", "completed", "cancelled", "failed" }

\* The fixed table, external status to internal delivery status.
Mapped(external) ==
  CASE external = "available" -> "booked"
    [] external \in {"active", "performer_found"} -> "courier_assigned"
    [] external \in {"performer_on_the_way", "delivering"} -> "in_transit"
    [] external = "completed" -> "delivered"
    [] external = "cancelled" -> "cancelled"
    [] external = "failed" -> "failed"

\* A webhook for a known delivery with a recognized status has returned.
HookApplied(p) ==
  /\ pr[p].kind = "hook"
  /\ pr[p].pc = "done"
  /\ pr[p].deliv # NoRow
  /\ pr[p].req.new_status \in Recognized

\* C19: the webhook maps external statuses by the fixed table: once a
\* webhook for a known delivery with a recognized status has returned, the
\* delivery it names has the mapped status.
C19_WebhookMapsByTable ==
  \A p \in ProcIds :
    HookApplied(p)
      => /\ deliveries[pr[p].deliv].borzo_order_id = pr[p].req.order_id
         /\ deliveries[pr[p].deliv].status = Mapped(pr[p].req.new_status)

\* A webhook with active has returned for a booked delivery, now assigned
\* to a courier.
C19_Witness ==
  \E p \in ProcIds :
    /\ HookApplied(p)
    /\ pr[p].req.new_status = "active"
    /\ deliveries[pr[p].deliv].status = "courier_assigned"

\* The webhook request in slot p carries a status outside the fixed table,
\* or a provider order id that no delivery has.
Unmatched(p) ==
  \/ pr[p].req.new_status \notin Recognized
  \/ \A d \in 1..Len(deliveries) :
        deliveries[d].borzo_order_id # pr[p].req.order_id

\* C20: a webhook with an unrecognized status, or with a provider order id
\* of no delivery, changes nothing and is acknowledged with success: no step
\* of it changes a delivery, an order or the sent notifications, and it
\* returns { ok: true }.
C20_UnmatchedWebhookIsNoOp ==
  [][ \A p \in ProcIds :
        (pr'[p].kind = "hook" /\ Unmatched(p)')
          => /\ deliveries' = deliveries
             /\ orders' = orders
             /\ outbox' = outbox
             /\ pr'[p].pc = "done"
                  => pr'[p].resp = [http |-> 200, ok |-> TRUE] ]_vars

\* A webhook for delivery d has been received and has not returned yet.
HookInFlight(d) ==
  \E p \in ProcIds :
    pr[p].kind = "hook" /\ pr[p].pc # "done" /\ pr[p].deliv = d

\* C21: once the webhook that moved a delivery to delivered has been
\* handled, the owning order is completed: a delivery that is delivered,
\* with no webhook for it still running, belongs to a completed order.
C21_DeliveredImpliesCompleted ==
  \A d \in 1..Len(deliveries) :
    (deliveries[d].status = "delivered" /\ ~HookInFlight(d))
      => orders[deliveries[d].order_id].status = "completed"

\* The step of a manual cancellation that sets the local status.
SetsCancelled(p) ==
  /\ pr[p].kind = "cancel"
  /\ pr[p].pc = "c_update"
  /\ pr'[p].pc = "done"

\* The cancellation in slot p has asked the provider to cancel the provider
\* order stored on its delivery.
ProviderCancelAttempted(p) ==
  /\ pr[p].cancel \in {"ok", "raised"}
  /\ pr[p].provider # NoRow
  /\ pr[p].provider = deliveries[pr[p].deliv].borzo_order_id

\* C22: a manual cancellation of a delivery that is booked or
\* courier_assigned has asked the provider to cancel the stored provider
\* order by the time it sets the local status to cancelled.
C22_CancelAsksProviderFirst ==
  [][ \A p \in ProcIds :
        (/\ SetsCancelled(p)
         /\ deliveries[pr[p].deliv].status \in {"booked", "courier_assigned"})
          => /\ ProviderCancelAttempted(p)
             /\ deliveries'[pr[p].deliv].status = "cancelled" ]_vars

\* A manual cancellation that found a delivery of the order has returned.
CancelReturned(p) ==
  /\ pr[p].kind = "cancel"
  /\ pr[p].pc = "done"
  /\ pr[p].deliv # NoRow

\* C23: a manual cancellation of an existing delivery ends with the
\* delivery cancelled and answers success, whether the provider-side cancel
\* succeeded, raised or was not attempted.
C23_CancelAlwaysCancelsLocally ==
  \A p \in ProcIds :
    CancelReturned(p)
      => /\ pr[p].cancel \in {NULL, "ok", "raised"}
         /\ deliveries[pr[p].deliv].status = "cancelled"
         /\ pr[p].resp = [http |-> 200, success |-> TRUE]

\* The provider refused to cancel; the delivery is cancelled all the same.
C23_Witness ==
  \E p \in ProcIds :
    /\ CancelReturned(p)
    /\ pr[p].cancel = "raised"
    /\ pr[p].snap.status = "booked"
    /\ deliveries[pr[p].deliv].status = "cancelled"

\* A step of a price-only estimate.
EstimateStepOf(p) ==
  /\ pr[p].kind = "estimate"
  /\ pr'[p] # pr[p]

\* C24: the final price is set only once, at booking: no step changes the
\* final price of a delivery that has one, and a step of a price-only
\* estimate sets no final price and creates no provider order.
C24_FinalPriceSetOnce ==
  [][ /\ \A d \in 1..Len(deliveries) :
           deliveries[d].final_price # NoAmount
             => deliveries'[d].final_price = deliveries[d].final_price
      /\ \A p \in ProcIds :
           EstimateStepOf(p)
             => /\ borzo' = borzo
                /\ \A d \in 1..Len(deliveries) :
                     deliveries'[d].final_price = deliveries[d].final_price
    ]_vars

\* C25: there is at most one delivery per order in every reachable state,
\* also when booking requests for the same order overlap.
C25_OneDeliveryPerOrder ==
  \A o \in OrderIds : Cardinality(DeliveriesOf(o)) <= 1

\* A price estimate that found a delivery of the order has returned.
EstimateReturned(p) ==
  /\ pr[p].kind = "estimate"
  /\ pr[p].pc = "done"
  /\ pr[p].deliv # NoRow

\* A booking has returned after the provider's createOrder raised.
BookingRaised(p) ==
  /\ pr[p].kind = "book"
  /\ pr[p].pc = "done"
  /\ pr[p].deliv # NoRow
  /\ pr[p].provider = NoRow

\* The delivery of the first order is in the given statuses.
FirstDeliveryIn(statuses) ==
  /\ Len(deliveries) >= 1
  /\ deliveries[1].status \in statuses

Apologized(p) ==
  /\ pr[p].kind = "msg"
  /\ pr[p].pc = "done"
  /\ pr[p].resp = [reply |-> "apology"]

\* C27: a message answered with the apology has mutated no order state: the
\* orders, with their statuses and delivery addresses, and the prescriptions
\* are those of the moment the message came.
C27_ApologyMeansNoMutation ==
  \A p \in ProcIds :
    Apologized(p)
      => /\ orders = pr[p].before.orders
         /\ prescriptions = pr[p].before.prescriptions

\* A dashboard transition has returned after a notification send failed.
SendFailed(p) ==
  /\ pr[p].kind = "status"
  /\ pr[p].pc = "done"
  /\ pr[p].tNext # NULL
  /\ pr[p].resp.http = 500

\* The history holds the record of the transition of the request in slot p.
TransitionLogged(p) ==
  \E i \in 1..Len(history) :
    /\ history[i].order_id = pr[p].oid
    /\ history[i].from_status = pr[p].tFrom
    /\ history[i].to_status = pr[p].tNext

\* C28: a notification send that fails after the transition does not roll
\* the transition back: the order has the new status and the history
\* record of the transition is there, whatever the target status.
C28_SendFailureKeepsTransition ==
  \A p \in ProcIds :
    SendFailed(p)
      => /\ orders[pr[p].oid].status = pr[p].tNext
         /\ orders[pr[p].oid].status # pr[p].tFrom
         /\ TransitionLogged(p)

\* The cancellation notice could not be sent; the order is cancelled.
C28_Witness ==
  \E p \in ProcIds :
    /\ SendFailed(p)
    /\ pr[p].req.status = "cancelled"
    /\ orders[pr[p].oid].status = "cancelled"
    /\ TransitionLogged(p)

\* C29: a failing notification send does not leave the handler: a webhook
\* for a known delivery with a recognized status is acknowledged with
\* success, a delivered webhook has completed the order, and a dashboard
\* request whose transition is committed returns the updated order.
C29_SendFailuresAreContained ==
  \A p \in ProcIds :
    /\ HookApplied(p)
         => /\ pr[p].resp = [http |-> 200, ok |-> TRUE]
            /\ pr[p].req.new_status = "completed"
                 => orders[pr[p].oid].status = "completed"
    /\ (pr[p].kind = "status" /\ pr[p].pc = "done" /\ pr[p].tNext # NULL)
         => /\ pr[p].resp.http = 200
            /\ pr[p].resp.status = pr[p].tNext

\* A dashboard request with notification has moved its order to
\* awaiting_payment and has returned the updated order.
MovedToAwaitingPayment(p) ==
  /\ pr[p].kind = "status"
  /\ pr[p].pc = "done"
  /\ pr[p].tNext = "awaiting_payment"
  /\ pr[p].req.notifyCustomer
  /\ pr[p].resp.http = 200

\* C30: after a successful transition to awaiting_payment with notification
\* requested, the request has sent the confirmation and then the payment
\* instructions when the pharmacy has a UPI id, the confirmation alone
\* otherwise, and nothing else.
C30_AwaitingPaymentMessages ==
  \A p \in ProcIds :
    MovedToAwaitingPayment(p)
      => pr[p].sent = IF cfg.upi_id # NULL
                        THEN <<"orderConfirmed_upi", "paymentInstructions">>
                        ELSE <<"orderConfirmed_upi">>

\* A dashboard request has committed its transition and returned the order.
Succeeded(p) ==
  /\ pr[p].kind = "status"
  /\ pr[p].pc = "done"
  /\ pr[p].tNext # NULL
  /\ pr[p].resp.http = 200

\* C31: for every dashboard request that succeeds, the stored status is the
\* requested target and the notification is the one of the status reached:
\* the UPI confirmation first for awaiting_payment, the cash-on-delivery
\* confirmation alone for confirmed; with the notify flag false no message
\* is sent.
C31_NotificationMatchesReachedStatus ==
  \A p \in ProcIds :
    Succeeded(p)
      => /\ orders[pr[p].oid].status = pr[p].req.status
         /\ (pr[p].req.notifyCustomer /\ pr[p].tNext = "awaiting_payment")
              => (pr[p].sent # <<>> /\ pr[p].sent[1] = "orderConfirmed_upi")
         /\ (pr[p].req.notifyCustomer /\ pr[p].tNext = "confirmed")
              => pr[p].sent = <<"orderConfirmed_cod">>
         /\ ~pr[p].req.notifyCustomer => pr[p].sent = <<>>

\* The numbers the patterns find in a line once its leading bullets and
\* list number are gone, and the line with nothing taken out of it: from its
\* first to its last character that is not a bullet.
Matched(line) ==
  LET unbulleted == SubSeq(line, Run(line, 1, Bullets) + 1, Len(line))
      d == Run(unbulleted, 1, Digits)
      w == Run(unbulleted, d + 1, {".", ")", ":"} \cup Whitespace)
      cleaned == trim(IF d > 0 /\ w > 0
                        THEN SubSeq(unbulleted, d + w + 1, Len(unbulleted))
                        ELSE unbulleted)
      kept == {i \in DOMAIN cleaned : cleaned[i] \notin Bullets}
  IN  [whole |-> IF kept = {} THEN <<>>
                 ELSE SubSeq(cleaned,
                             CHOOSE i \in kept : \A j \in kept : i <= j,
                             Max(kept)),
       numbers |-> {parseInt(m.group) :
                      m \in {match(cleaned, quantityPatterns[k]) :
                               k \in DOMAIN quantityPatterns} \ {NoMatch}}]

\* C32: every item the extractor produces has a quantity from 1 to 100; a
\* matched number that is 0 or above 100 is never the quantity, and when no
\* pattern finds a number in range the line is kept whole as the name, with
\* quantity 1.
C32_QuantityInRange ==
  LET found == Matched(parse.line)
  IN  (parse.returned /\ parse.result # NoItem)
        => /\ parse.result.quantity \in 1..100
           /\ parse.result.quantity \in found.numbers \cup {1}
           /\ found.numbers \cap (1..100) = {}
                => /\ parse.result.quantity = 1
                   /\ parse.result.name = found.whole

\* "aX101" comes back whole with quantity 1.
C32_Witness ==
  /\ parse.line = <<"a", "X", "1", "0", "1">>
  /\ parse.returned
  /\ parse.result.quantity = 1
  /\ parse.result.name = parse.line

\* The orders of a customer that are neither completed nor cancelled.
OpenOrders(c) ==
  {o \in DOMAIN orders :
     orders[o].customer_id = c /\ orders[o].status \notin {"completed", "cancelled"}}

\* C33: with requests handled one at a time every customer has at most one
\* order that is neither completed nor cancelled; an order is created only
\* for a customer who has none, and a completed or cancelled order never
\* takes another kind of status again.
C33_OneOpenOrderPerCustomer ==
  /\ [](\A c \in Customers : Cardinality(OpenOrders(c)) <= 1)
  /\ [][ /\ Len(orders') > Len(orders)
            => OpenOrders(orders'[Len(orders')].customer_id) = {}
        /\ \A o \in DOMAIN orders :
             orders[o].status \in {"completed", "cancelled"}
               => orders'[o].status \in {"completed", "cancelled"} ]_vars

\* A customer whose earlier order is closed has a new one, created by a
\* message.
C33_Witness ==
  \E p \in ProcIds, o \in DOMAIN orders :
    /\ pr[p].kind = "msg"
    /\ pr[p].pc = "done"
    /\ pr[p].oid = Len(orders)
    /\ o < pr[p].oid
    /\ orders[pr[p].oid].status = "pending"
    /\ orders[o].customer_id = orders[pr[p].oid].customer_id
    /\ orders[o].status \in {"completed", "cancelled"}

\* C34: in every reachable state, whatever the interleaving of transition
\* requests, an order in awaiting_payment or payment_confirmed is paid by
\* upi and an order in confirmed is paid by cod.
C34_StatusMatchesPaymentMethod ==
  \A o \in DOMAIN orders :
    /\ orders[o].status \in {"awaiting_payment", "payment_confirmed"}
         => orders[o].payment_method = "upi"
    /\ orders[o].status = "confirmed" => orders[o].payment_method = "cod"

\* A courier webhook for a delivery that was delivered or cancelled when it
\* arrived is being handled.
LateHook(p) ==
  /\ pr[p].kind = "hook"
  /\ pr[p].deliv # NoRow
  /\ pr[p].before \in {"delivered", "cancelled"}

\* C35: delivered and cancelled are absorbing for courier webhooks: a
\* webhook that arrives for a delivery already delivered or cancelled
\* changes neither the status of the delivery nor the status of its order.
C35_DeliveredAndCancelledAbsorbing ==
  [][ \A p \in ProcIds :
        LateHook(p)
          => /\ deliveries'[pr[p].deliv].status = deliveries[pr[p].deliv].status
             /\ orders'[pr[p].oid].status = orders[pr[p].oid].status ]_vars

\* The courier's createOrder returns to request p.
CreateOrderCalled(p) ==
  /\ pr[p].kind # "idle"
  /\ pr[p].pc = "bk_call"
  /\ pr'[p].pc # "bk_call"

\* C36: at most one provider order is created per delivery: createOrder is
\* never called for a delivery that is booked, courier_assigned, in_transit
\* or delivered, and a stored provider order id is never overwritten.
C36_OneProviderOrderPerDelivery ==
  [][ /\ \A p \in ProcIds :
           CreateOrderCalled(p)
             => deliveries[pr[p].deliv].status
                  \notin {"booked", "courier_assigned", "in_transit", "delivered"}
      /\ \A d \in 1..Len(deliveries) :
           deliveries[d].borzo_order_id # NoRow
             => deliveries'[d].borzo_order_id = deliveries[d].borzo_order_id
    ]_vars

\* C37: a price estimate never moves a delivery backwards: a step of
\* calculateDeliveryPrice leaves the status of a delivery that is booked,
\* courier_assigned, in_transit, delivered or cancelled as it is.
C37_EstimateNeverMovesBackwards ==
  [][ \A p \in ProcIds :
        (EstimateStepOf(p) /\ pr[p].deliv # NoRow)
          => (deliveries[pr[p].deliv].status
                \in {"booked", "courier_assigned", "in_transit", "delivered",
                     "cancelled"}
              => deliveries'[pr[p].deliv].status
                   = deliveries[pr[p].deliv].status) ]_vars

\* A step of transitionOrderStatus called by request p.
TransitionStepOf(p) ==
  /\ pr[p].kind # "idle"
  /\ pr[p].pc \in {"t_read", "t_update", "t_log"}
  /\ pr'[p] # pr[p]

\* C38: transitionOrderStatus never modifies a delivery: each of its steps,
\* also for CANCEL of an order whose delivery is booked and for
\* MARK_COMPLETED, leaves every delivery row as it is, and the provider is
\* not asked to cancel or to create anything.
C38_TransitionLeavesDeliveryAlone ==
  [][ \A p \in ProcIds :
        TransitionStepOf(p)
          => /\ deliveries' = deliveries
             /\ borzo' = borzo
             /\ pr'[p].cancel = NULL ]_vars

\* An order whose delivery is booked has been cancelled, and the delivery
\* is still booked.
C38_Witness ==
  \E p \in ProcIds, d \in DOMAIN deliveries :
    /\ pr[p].kind = "status"
    /\ pr[p].pc = "done"
    /\ pr[p].tEvent.type = "CANCEL"
    /\ pr[p].tNext = "cancelled"
    /\ orders[pr[p].oid].status = "cancelled"
    /\ deliveries[d].order_id = pr[p].oid
    /\ deliveries[d].status = "booked"

\* A step of the inbound-message handler called for request p.
MessageStepOf(p) ==
  /\ pr[p].kind = "msg"
  /\ pr'[p] # pr[p]

\* C39: the only change of status the inbound-message handler makes on an
\* existing order is awaiting_rx -> rx_received, on the order a message
\* with media was matched to (branch 1); every other order, and the matched
\* order of every other branch, keeps its status, and an order the handler
\* creates is pending.
C39_MessageOnlyReceivesPrescription ==
  [][ \A p \in ProcIds :
        MessageStepOf(p)
          => /\ \A o \in DOMAIN orders :
                  orders'[o].status # orders[o].status
                    => /\ orders[o].status = "awaiting_rx"
                       /\ orders'[o].status = "rx_received"
                       /\ o = pr[p].oid
                       /\ pr[p].req.numMedia > 0
             /\ \A o \in DOMAIN orders' \ DOMAIN orders :
                  orders'[o].status = "pending" ]_vars

\* A message with media has moved an order from awaiting_rx to rx_received.
C39_Witness ==
  \E p \in ProcIds :
    /\ pr[p].kind = "msg"
    /\ pr[p].pc = "done"
    /\ pr[p].req.numMedia > 0
    /\ pr[p].tFrom = "awaiting_rx"
    /\ orders[pr[p].oid].status = "rx_received"

\* C40: a transition other than CONFIRM_AVAILABILITY leaves the total amount
\* and the payment method of the order as they are, and the write of a
\* CONFIRM_AVAILABILITY sets both to the amount and the method of the event
\* together with the status, whatever they were before, also when the
\* order is under review for the second time.
C40_ConfirmSetsAmountAndMethod ==
  [][ \A p \in ProcIds :
        TransitionStepOf(p)
          => IF pr[p].pc = "t_update"
                /\ pr[p].tEvent.type = "CONFIRM_AVAILABILITY"
               THEN /\ orders'[pr[p].oid].total_amount = pr[p].tEvent.totalAmount
                    /\ orders'[pr[p].oid].payment_method
                         = pr[p].tEvent.paymentMethod
                    /\ orders'[pr[p].oid].status
                         = IF pr[p].tEvent.paymentMethod = "upi"
                             THEN "awaiting_payment" ELSE "confirmed"
               ELSE /\ orders'[pr[p].oid].total_amount
                         = orders[pr[p].oid].total_amount
                    /\ orders'[pr[p].oid].payment_method
                         = orders[pr[p].oid].payment_method ]_vars

\* The order under review for the second time, whose total amount had been
\* set to 20, has been confirmed with the amount 10.
C40_Witness ==
  \E p \in ProcIds :
    /\ pr[p].kind = "status"
    /\ pr[p].pc = "done"
    /\ pr[p].tEvent.type = "CONFIRM_AVAILABILITY"
    /\ pr[p].tEvent.totalAmount = 10
    /\ pr[p].tNext # NULL
    /\ pr[p].snap.total_amount = 20
    /\ orders[pr[p].oid].total_amount = 10
    /\ Len(history) = Len(ReviewedAgainDb.history) + 1
    /\ SubSeq(history, 1, Len(ReviewedAgainDb.history))
         = ReviewedAgainDb.history

====
